---------------------------- MODULE Spec2Model ----------------------------
(***************************************************************************)
(* A model of the procedural event engine of the sandbox (src/events.py)   *)
(* together with the parts of the player, the world and the entity manager *)
(* that it reads and writes, of the world's tiles, overrides, fog of war   *)
(* and persistence (src/world.py), of the path planner and the entity      *)
(* simulation (src/entities.py), of the combat system (src/combat.py) and  *)
(* of the frame of the main loop that drives them (src/main.py).           *)
(*                                                                         *)
(* Time is counted in units of ten seconds: an event timer of 50..130 s is *)
(* 5..13, the chained timers 90 s and 100 s are 9 and 10, game_minutes     *)
(* (dt / 10) grows by dt, and next_event_in (minutes in the source) is     *)
(* kept in the same unit, so that "-= dt / 60" is "-= dt" on a value that  *)
(* was drawn from 12..60.  Random draws are inputs chosen with \E.         *)
(***************************************************************************)
EXTENDS Integers, Sequences, FiniteSets, TLC

VARIABLES
    active_events,      \* EventSystem.active_events: list of WorldEvent
    completed_events,   \* EventSystem.completed_events: list of titles
    next_event_id,      \* EventSystem.next_event_id
    game_minutes,       \* EventSystem.game_minutes
    next_event_in,      \* EventSystem.next_event_in
    next_flavor_in,     \* EventSystem.next_flavor_in
    player,             \* the Player fields the engine reads and writes
    player_blocks,      \* World.player_blocks: (tx, ty) -> block kind
    entities,           \* EntityManager.entities
    faction_relations,  \* EntityManager.faction_relations
    saved,              \* the dict EventSystem.to_dict last returned
    last,               \* the last call made on the engine and what it did
    seed,               \* World.seed
    chunks,             \* World.chunks: (cx, cy) -> Chunk
    discovered_tiles,   \* World.discovered_tiles
    sky,                \* World.time_of_day, weather and weather_timer
    saved_world,        \* the "world" entry of the save file
    combat,             \* CombatSystem: projectiles and the two cooldowns
    avatar,             \* the Player fields of position, facing and powers
    paused,             \* UIManager.paused
    crafting,           \* CraftingSystem.drag_from and drag_item
    frame               \* main: the position in the loop body and logs

vars == <<active_events, completed_events, next_event_id, game_minutes,
          next_event_in, next_flavor_in, player, player_blocks, entities,
          faction_relations, saved, last, seed, chunks, discovered_tiles,
          sky, saved_world, combat, avatar, paused, crafting, frame>>

engine == <<active_events, completed_events, next_event_id, player,
            player_blocks, entities, faction_relations>>

\* What the event engine neither reads nor writes.
outside == <<seed, chunks, discovered_tiles, sky, saved_world, combat, avatar,
             paused, crafting, frame>>

-----------------------------------------------------------------------------
(* Bounds of the model.                                                    *)

\* No event is created once next_event_id has passed this id.
MaxEventId == 3
\* update is not called once game_minutes would pass this value.
MaxGameMinutes == 18
\* The same two caps for the specification of the capacity of the list
\* and for the specification of the completion history.
MaxCapacityEventId == 6
MaxCapacityMinutes == 12
MaxHistoryEventId == 51
MaxHistoryMinutes == 51

-----------------------------------------------------------------------------
(* Program constants.                                                      *)

MaxActiveEvents == 5
HistoryKept == 50
HotbarSize == 10
InventorySize == 50
ExpNeedBase == 70
ExpNeedPerLevel == 35
LevelTriggerFrom == 4
MaxRaidSpawn == 5
RuinRadius == 2
DefenseFollowTimer == 9
QuestlineFollowTimer == 10

None == <<>>
NoSave == [kind |-> "none"]

Max(a, b) == IF a >= b THEN a ELSE b
Min(a, b) == IF a <= b THEN a ELSE b

-----------------------------------------------------------------------------
(* Player (src/player.py).                                                 *)

EmptySlot == [id |-> "", count |-> 0]

\* CraftingSystem after construction: drag_from and drag_item are None;
\* the None of drag_from, an index otherwise, is NoSlot.
NoSlot == 0 - 1
NoDrag == [drag_from |-> NoSlot, drag_item |-> None]

InitialSlots ==
    <<[id |-> "wood", count |-> 10], [id |-> "ore", count |-> 6]>>
    \o [i \in 1..(HotbarSize - 2) |-> EmptySlot]
    \o <<[id |-> "cheat_fruit", count |-> 1]>>
    \o [i \in 1..(InventorySize - 1) |-> EmptySlot]

InitialPlayer ==
    [exp |-> 0, level |-> 1, reputation |-> 0, hp |-> 100, hp_max |-> 100,
     mana |-> 80, mana_max |-> 80, slots |-> InitialSlots]

ExpNeed(level) == ExpNeedBase + level * ExpNeedPerLevel

RECURSIVE LevelUps(_)
LevelUps(p) ==
    IF p.exp >= ExpNeed(p.level)
    THEN LevelUps([p EXCEPT !.exp = @ - ExpNeed(p.level),
                            !.level = @ + 1,
                            !.hp_max = @ + 8,
                            !.mana_max = @ + 6,
                            !.hp = p.hp_max + 8,
                            !.mana = p.mana_max + 6])
    ELSE p

gain_exp(p, amount) == LevelUps([p EXCEPT !.exp = @ + amount])

\* The first slot of hotbar + inventory that holds item_id, or 0.
FirstHeld(slots, item_id) ==
    IF \E i \in 1..Len(slots) : slots[i].id = item_id
    THEN CHOOSE i \in 1..Len(slots) :
            slots[i].id = item_id
            /\ \A j \in 1..(i - 1) : slots[j].id # item_id
    ELSE 0

\* The first empty slot of hotbar + inventory, or 0.
FirstEmpty(slots) ==
    IF \E i \in 1..Len(slots) : slots[i] = EmptySlot
    THEN CHOOSE i \in 1..Len(slots) :
            slots[i] = EmptySlot
            /\ \A j \in 1..(i - 1) : slots[j] # EmptySlot
    ELSE 0

add_item(slots, item_id, count) ==
    LET held == FirstHeld(slots, item_id)
        free == FirstEmpty(slots)
    IN  IF held # 0 THEN [slots EXCEPT ![held].count = @ + count]
        ELSE IF free # 0
             THEN [slots EXCEPT ![free] = [id |-> item_id, count |-> count]]
             ELSE slots

RECURSIVE add_items(_, _)
add_items(slots, items) ==
    IF items = <<>> THEN slots
    ELSE add_items(add_item(slots, items[1][1], items[1][2]), Tail(items))

-----------------------------------------------------------------------------
(* Entities (src/entities.py), as far as the engine touches them.          *)

BaseEntity(x, y, etype, faction, hp, speed, radius) ==
    [x |-> x, y |-> y, etype |-> etype, faction |-> faction, hp |-> hp,
     speed |-> speed, radius |-> radius, state |-> "wander",
     talk_cooldown |-> 0, ai_timer |-> 0, dir |-> <<1, 0>>]

\* spawn_initial_population with every random position drawn as (0, 0).
InitialPopulation ==
    [i \in 1..12 |-> BaseEntity(0, 0, "slime", "monsters", 26, 70, 11)]
    \o [i \in 1..6 |-> BaseEntity(0, 0, "goblin", "monsters", 38, 88, 12)]
    \o [i \in 1..5 |-> BaseEntity(0, 0, "wolf", "monsters", 32, 105, 10)]
    \o <<BaseEntity(0, 0, "villager", "villagers", 70, 68, 12),
         BaseEntity(0, 0, "villager", "villagers", 70, 68, 12),
         BaseEntity(0, 0, "merchant", "villagers", 70, 68, 12),
         BaseEntity(0, 0, "waifu", "villagers", 70, 68, 12),
         BaseEntity(620, -420, "dragon", "boss", 360, 95, 20),
         BaseEntity(-760, 500, "demon_lord", "boss", 460, 75, 22)>>

InitialRelations ==
    (<<"player", "villagers">> :> 10)
    @@ (<<"player", "monsters">> :> -80)
    @@ (<<"villagers", "monsters">> :> -90)

RelationGet(rel, key, default) ==
    IF key \in DOMAIN rel THEN rel[key] ELSE default

RelationSet(rel, key, value) ==
    [k \in DOMAIN rel \cup {key} |-> IF k = key THEN value ELSE rel[k]]

-----------------------------------------------------------------------------
(* World.player_blocks (src/world.py).                                     *)

place_player_block(blocks, tx, ty, kind) ==
    [k \in DOMAIN blocks \cup {<<tx, ty>>} |->
        IF k = <<tx, ty>> THEN kind ELSE blocks[k]]

RemoveKeepsBlock(blocks, tx, ty) == blocks
remove_player_block(blocks, tx, ty) ==
    [k \in DOMAIN blocks \ {<<tx, ty>>} |-> blocks[k]]

NoBlocks == [k \in {} |-> "wall"]

-----------------------------------------------------------------------------
(* World: tiles, chunks, solidity, fog of war, clock (src/world.py).       *)
(*                                                                         *)
(* The tile of a coordinate is a function of the coordinate and the seed   *)
(* through trigonometric noise.  GeneratedRows42 and GeneratedRows7 are    *)
(* the tiles generate_chunk computes under the seeds 42 and 7 for the      *)
(* window tx in -6..25, ty in -12..12, one row per ty, each row in runs of *)
(* <<length, tile>> from tx = -6 on.  No operation of the model asks for a *)
(* tile outside the window; one that did would stop the evaluation.        *)
(*                                                                         *)
(* Lengths are counted in units of 1/8000 pixel and durations in units of  *)
(* 1/2000 second: with the frame's dt of 0.05 s every product of a speed,  *)
(* dt and the factors 0.45 and 0.7 of the source is then an integer.  The  *)
(* hour of the day is counted in units of 1/100000 hour (dt * 0.28).       *)

TILE_SIZE == 32
CHUNK_SIZE == 32

\* Units per pixel and per second.
PX == 20 * 400
SECOND == 20 * 100
HOUR == 1000 * 100

GeneratedRows42 ==
    <<<<<<5, "dirt">>, <<11, "grass">>, <<14, "dungeon">>, <<2, "grass">>>>,
      <<<<5, "dirt">>, <<12, "grass">>, <<12, "dungeon">>, <<3, "grass">>>>,
      <<<<5, "dirt">>, <<12, "grass">>, <<12, "dungeon">>, <<3, "grass">>>>,
      <<<<6, "dirt">>, <<11, "grass">>, <<11, "dungeon">>, <<4, "grass">>>>,
      <<<<6, "dirt">>, <<11, "grass">>, <<11, "dungeon">>, <<4, "grass">>>>,
      <<<<6, "dirt">>, <<11, "grass">>, <<11, "dungeon">>, <<4, "grass">>>>,
      <<<<6, "dirt">>, <<11, "grass">>, <<10, "dungeon">>, <<5, "grass">>>>,
      <<<<6, "dirt">>, <<11, "grass">>, <<10, "dungeon">>, <<5, "grass">>>>,
      <<<<7, "dirt">>, <<10, "grass">>, <<9, "dungeon">>, <<4, "grass">>, <<2, "dirt">>>>,
      <<<<7, "dirt">>, <<10, "grass">>, <<9, "dungeon">>, <<2, "grass">>, <<4, "dirt">>>>,
      <<<<7, "dirt">>, <<10, "grass">>, <<9, "dungeon">>, <<1, "grass">>, <<5, "dirt">>>>,
      <<<<7, "dirt">>, <<10, "grass">>, <<9, "dungeon">>, <<6, "dirt">>>>,
      <<<<7, "dirt">>, <<9, "grass">>, <<10, "dungeon">>, <<6, "dirt">>>>,
      <<<<7, "dirt">>, <<9, "grass">>, <<10, "dungeon">>, <<6, "dirt">>>>,
      <<<<7, "dirt">>, <<9, "grass">>, <<9, "dungeon">>, <<1, "stone">>, <<6, "dirt">>>>,
      <<<<7, "dirt">>, <<8, "grass">>, <<10, "dungeon">>, <<1, "stone">>, <<6, "dirt">>>>,
      <<<<7, "dirt">>, <<8, "grass">>, <<9, "dungeon">>, <<2, "stone">>, <<6, "dirt">>>>,
      <<<<7, "dirt">>, <<7, "grass">>, <<9, "dungeon">>, <<3, "stone">>, <<6, "dirt">>>>,
      <<<<6, "dirt">>, <<7, "grass">>, <<10, "dungeon">>, <<3, "stone">>, <<6, "dirt">>>>,
      <<<<6, "dirt">>, <<7, "grass">>, <<9, "dungeon">>, <<4, "stone">>, <<6, "dirt">>>>,
      <<<<6, "dirt">>, <<6, "grass">>, <<10, "dungeon">>, <<5, "stone">>, <<5, "dirt">>>>,
      <<<<5, "dirt">>, <<6, "grass">>, <<11, "dungeon">>, <<5, "stone">>, <<5, "dirt">>>>,
      <<<<5, "dirt">>, <<6, "grass">>, <<11, "dungeon">>, <<5, "stone">>, <<5, "dirt">>>>,
      <<<<4, "dirt">>, <<6, "grass">>, <<11, "dungeon">>, <<6, "stone">>, <<3, "dirt">>, <<2, "water">>>>,
      <<<<3, "dirt">>, <<6, "grass">>, <<12, "dungeon">>, <<6, "stone">>, <<2, "dirt">>, <<3, "water">>>>>>

GeneratedRows7 ==
    <<<<<<8, "grass">>, <<15, "dirt">>, <<4, "grass">>, <<5, "water">>>>,
      <<<<7, "grass">>, <<16, "dirt">>, <<3, "grass">>, <<6, "water">>>>,
      <<<<4, "grass">>, <<19, "dirt">>, <<3, "grass">>, <<6, "water">>>>,
      <<<<1, "dirt">>, <<1, "grass">>, <<18, "dirt">>, <<6, "dungeon">>, <<6, "water">>>>,
      <<<<16, "dirt">>, <<4, "stone">>, <<5, "dungeon">>, <<7, "water">>>>,
      <<<<13, "dirt">>, <<8, "stone">>, <<4, "dungeon">>, <<7, "water">>>>,
      <<<<11, "dirt">>, <<10, "stone">>, <<4, "dungeon">>, <<7, "water">>>>,
      <<<<9, "dirt">>, <<3, "dungeon">>, <<9, "stone">>, <<4, "dungeon">>, <<7, "water">>>>,
      <<<<7, "dirt">>, <<6, "dungeon">>, <<8, "stone">>, <<4, "dungeon">>, <<7, "water">>>>,
      <<<<6, "dirt">>, <<8, "dungeon">>, <<8, "stone">>, <<3, "dungeon">>, <<7, "water">>>>,
      <<<<4, "dirt">>, <<12, "dungeon">>, <<6, "stone">>, <<3, "dungeon">>, <<7, "water">>>>,
      <<<<3, "dirt">>, <<14, "dungeon">>, <<5, "stone">>, <<3, "dungeon">>, <<7, "water">>>>,
      <<<<2, "dirt">>, <<16, "dungeon">>, <<5, "stone">>, <<2, "dungeon">>, <<7, "water">>>>,
      <<<<1, "dirt">>, <<18, "dungeon">>, <<4, "stone">>, <<2, "dungeon">>, <<7, "water">>>>,
      <<<<21, "dungeon">>, <<2, "stone">>, <<2, "dungeon">>, <<7, "water">>>>,
      <<<<25, "dungeon">>, <<7, "water">>>>,
      <<<<25, "dungeon">>, <<7, "water">>>>,
      <<<<26, "dungeon">>, <<6, "water">>>>,
      <<<<26, "dungeon">>, <<6, "water">>>>,
      <<<<27, "dungeon">>, <<5, "water">>>>,
      <<<<27, "dungeon">>, <<5, "water">>>>,
      <<<<28, "dungeon">>, <<4, "water">>>>,
      <<<<29, "dungeon">>, <<3, "water">>>>,
      <<<<31, "dungeon">>, <<1, "water">>>>,
      <<<<32, "dungeon">>>>>>

GeneratedRows(s) == IF s = 42 THEN GeneratedRows42 ELSE GeneratedRows7

RECURSIVE RunAt(_, _)
RunAt(runs, k) ==
    IF k <= runs[1][1] THEN runs[1][2] ELSE RunAt(Tail(runs), k - runs[1][1])

\* The tiles of the window.
Tabulated(tx, ty) ==
    /\ ty + 13 \in 1..Len(GeneratedRows42)
    /\ tx + 7 \in 1..32

\* The value tiles[ly][lx] that generate_chunk computes for (tx, ty).
GeneratedTile(s, tx, ty) == RunAt(GeneratedRows(s)[ty + 13], tx + 7)

\* A Chunk is immutable once generated and its tiles are a function of its
\* key and of the seed at the time: it is kept as that key and that seed.
generate_chunk(s, cx, cy) == [cx |-> cx, cy |-> cy, seed |-> s]

ChunkTile(chunk, lx, ly) ==
    GeneratedTile(chunk.seed, chunk.cx * CHUNK_SIZE + lx,
                  chunk.cy * CHUNK_SIZE + ly)

NoChunks == [k \in {} |-> generate_chunk(0, 0, 0)]

InitialSky ==
    [time_of_day |-> 8 * HOUR, weather |-> "clear",
     weather_timer |-> 40 * SECOND]

\* The World fields that the operations below read and write.
WorldState ==
    [seed |-> seed, chunks |-> chunks, player_blocks |-> player_blocks,
     discovered_tiles |-> discovered_tiles, sky |-> sky]

\* get_chunk returns the chunk cached under the key when there is one and
\* generates one under the current seed otherwise, which it caches.
ChunkOf(w, cx, cy) ==
    IF <<cx, cy>> \in DOMAIN w.chunks
    THEN w.chunks[<<cx, cy>>]
    ELSE generate_chunk(w.seed, cx, cy)

\* The world after get_chunk was called for each of the keys.
Cached(w, keys) ==
    [w EXCEPT !.chunks =
        [k \in DOMAIN w.chunks \cup keys |-> ChunkOf(w, k[1], k[2])]]

get_chunk(w, cx, cy) ==
    [world |-> Cached(w, {<<cx, cy>>}), ret |-> ChunkOf(w, cx, cy)]

ensure_chunks_around(w, world_x, world_y, radius_chunks) ==
    LET cx == world_x \div (TILE_SIZE * CHUNK_SIZE * PX)
        cy == world_y \div (TILE_SIZE * CHUNK_SIZE * PX)
    IN  Cached(w, {<<cx + ox, cy + oy>> :
                      ox \in (-radius_chunks)..radius_chunks,
                      oy \in (-radius_chunks)..radius_chunks})

ChunkKey(tx, ty) == <<tx \div CHUNK_SIZE, ty \div CHUNK_SIZE>>

get_tile(w, tx, ty) ==
    LET got == get_chunk(w, tx \div CHUNK_SIZE, ty \div CHUNK_SIZE)
    IN  [world |-> got.world,
         ret |-> ChunkTile(got.ret, tx % CHUNK_SIZE, ty % CHUNK_SIZE)]

SolidTiles == {"water", "stone"}

IsSolidIgnoringBlocks(w, tx, ty) ==
    [world |-> get_tile(w, tx, ty).world,
     ret |-> get_tile(w, tx, ty).ret \in SolidTiles]
is_solid_tile(w, tx, ty) ==
    IF <<tx, ty>> \in DOMAIN w.player_blocks
    THEN [world |-> w, ret |-> w.player_blocks[<<tx, ty>>] = "wall"]
    ELSE [world |-> get_tile(w, tx, ty).world,
          ret |-> get_tile(w, tx, ty).ret \in SolidTiles]

\* radius_tiles as reveal_around has it by default.
RevealRadius == 9

RevealedAround(world_x, world_y, radius_tiles) ==
    LET tx == world_x \div (TILE_SIZE * PX)
        ty == world_y \div (TILE_SIZE * PX)
    IN  {<<x, y>> : x \in (tx - radius_tiles)..(tx + radius_tiles),
                    y \in (ty - radius_tiles)..(ty + radius_tiles)}

reveal_around(w, world_x, world_y, radius_tiles) ==
    [w EXCEPT !.discovered_tiles =
        @ \cup RevealedAround(world_x, world_y, radius_tiles)]

Weathers == {"clear", "rain", "arcane_wind"}

\* World.update: the draws are the new weather timer and the new weather.
world_update(w, dt, timer_draw, weather_draw) ==
    LET t == w.sky.weather_timer - dt
    IN  [w EXCEPT !.sky =
            [time_of_day |-> (w.sky.time_of_day + dt * 14) % (24 * HOUR),
             weather |-> IF t <= 0 THEN weather_draw ELSE w.sky.weather,
             weather_timer |-> IF t <= 0 THEN timer_draw ELSE t]]

IsNight(w) ==
    w.sky.time_of_day < 6 * HOUR \/ w.sky.time_of_day > 19 * HOUR

(* Persistence of the world.  A string is the sequence of its characters, *)
(* so that formatting a coordinate and parsing it back are computed.       *)

DigitChars == <<"0", "1", "2", "3", "4", "5", "6", "7", "8", "9">>

RECURSIVE Digits(_)
Digits(n) ==
    IF n < 10 THEN <<DigitChars[n + 1]>>
    ELSE Digits(n \div 10) \o <<DigitChars[(n % 10) + 1]>>

\* str(n) of an int, as the f-string formats it.
IntToStrUnsigned(n) == Digits(IF n < 0 THEN 0 - n ELSE n)
IntToStr(n) == IF n < 0 THEN <<"-">> \o Digits(-n) ELSE Digits(n)

\* f"{x},{y}"
CoordKey(x, y) == IntToStr(x) \o <<",">> \o IntToStr(y)

\* str.split(sep): the parts between the separators.
RECURSIVE Split(_, _, _, _)
Split(str, sep, part, k) ==
    IF k > Len(str) THEN <<part>>
    ELSE IF str[k] = sep THEN <<part>> \o Split(str, sep, <<>>, k + 1)
    ELSE Split(str, sep, Append(part, str[k]), k + 1)

split(str, sep) == Split(str, sep, <<>>, 1)

DigitValue(c) == CHOOSE d \in 0..9 : DigitChars[d + 1] = c
IsDigit(c) == \E d \in 0..9 : DigitChars[d + 1] = c

RECURSIVE DigitsValue(_, _)
DigitsValue(str, acc) ==
    IF str = <<>> THEN acc
    ELSE DigitsValue(Tail(str), acc * 10 + DigitValue(str[1]))

\* int(str) of an optional sign followed by digits; everything else is not
\* written by to_dict and raises ValueError.
IsIntLiteral(str) ==
    LET body == IF str # <<>> /\ str[1] \in {"-", "+"} THEN Tail(str)
                ELSE str
    IN  body # <<>> /\ \A k \in 1..Len(body) : IsDigit(body[k])

int(str) ==
    IF str[1] = "-" THEN 0 - DigitsValue(Tail(str), 0)
    ELSE IF str[1] = "+" THEN DigitsValue(Tail(str), 0)
    ELSE DigitsValue(str, 0)

\* x, y = key.split(","); (int(x), int(y))
ParseCoord(key) == <<int(split(key, ",")[1]), int(split(key, ",")[2])>>

\* Whether x, y = key.split(",") and int(x), int(y) run without ValueError.
WellFormedKey(key) ==
    /\ Len(split(key, ",")) = 2
    /\ IsIntLiteral(split(key, ",")[1])
    /\ IsIntLiteral(split(key, ",")[2])

DiscoveredKept == 8000

\* list(discovered_tiles)[:8000]: all of the set when it has at most 8000
\* members, and otherwise the 8000 that the set happens to list first.
KeptDiscovered(tiles) ==
    IF Cardinality(tiles) <= DiscoveredKept THEN {tiles}
    ELSE {kept \in SUBSET tiles : Cardinality(kept) = DiscoveredKept}

Get(data, key, default) ==
    IF key \in DOMAIN data THEN data[key] ELSE default

\* World.to_dict; "discovered" is a list in the source and is kept as the
\* set of its members, the only thing load_dict uses of it.
world_to_dict(w, kept) ==
    [seed |-> w.seed,
     time_of_day |-> w.sky.time_of_day,
     weather |-> w.sky.weather,
     player_blocks |->
        [key \in {CoordKey(k[1], k[2]) : k \in DOMAIN w.player_blocks} |->
            w.player_blocks[CHOOSE k \in DOMAIN w.player_blocks :
                                CoordKey(k[1], k[2]) = key]],
     discovered |-> {CoordKey(k[1], k[2]) : k \in kept}]

LoadDictKeepsFog(w, data) ==
    [seed |-> Get(data, "seed", w.seed),
     chunks |-> w.chunks,
     player_blocks |-> w.player_blocks,
     discovered_tiles |-> w.discovered_tiles
        \cup {ParseCoord(key) : key \in Get(data, "discovered", {})},
     sky |-> w.sky]
\* World.load_dict.  The chunk cache is left as it is.
world_load_dict(w, data) ==
    [seed |-> Get(data, "seed", w.seed),
     chunks |-> w.chunks,
     player_blocks |->
        LET saved_blocks == Get(data, "player_blocks", <<>>)
        IN  [k \in {ParseCoord(key) : key \in DOMAIN saved_blocks} |->
                saved_blocks[CHOOSE key \in DOMAIN saved_blocks :
                                 ParseCoord(key) = k]],
     discovered_tiles |->
        {ParseCoord(key) : key \in Get(data, "discovered", {})},
     sky |-> [time_of_day |-> Get(data, "time_of_day", w.sky.time_of_day),
              weather |-> Get(data, "weather", w.sky.weather),
              weather_timer |-> w.sky.weather_timer]]

\* World.load_dict with the ValueError of a key that is not two integers
\* joined by a comma.  The model keeps no order of the keys, so the keys
\* handled before the one that faults are any of the well-formed ones; the
\* discovered set is emptied only after the loop over the blocks.
world_load_outcomes(w, data) ==
    LET saved_blocks == Get(data, "player_blocks", <<>>)
        listed == Get(data, "discovered", {})
        good_blocks == {key \in DOMAIN saved_blocks : WellFormedKey(key)}
        good_listed == {key \in listed : WellFormedKey(key)}
        started == [w EXCEPT
                      !.seed = Get(data, "seed", w.seed),
                      !.sky = [time_of_day |->
                                  Get(data, "time_of_day", w.sky.time_of_day),
                               weather |-> Get(data, "weather", w.sky.weather),
                               weather_timer |-> w.sky.weather_timer]]
        blocks_of(keys) ==
            [k \in {ParseCoord(key) : key \in keys} |->
                saved_blocks[CHOOSE key \in keys : ParseCoord(key) = k]]
    IN  IF good_blocks # DOMAIN saved_blocks
        THEN {[world |-> [started EXCEPT !.player_blocks = blocks_of(done)],
               fault |-> TRUE] : done \in SUBSET good_blocks}
        ELSE IF good_listed # listed
        THEN {[world |-> [started EXCEPT
                             !.player_blocks = blocks_of(good_blocks),
                             !.discovered_tiles =
                                 {ParseCoord(key) : key \in done}],
               fault |-> TRUE] : done \in SUBSET good_listed}
        ELSE {[world |-> world_load_dict(w, data), fault |-> FALSE]}

SetWorld(w) ==
    /\ seed' = w.seed
    /\ chunks' = w.chunks
    /\ player_blocks' = w.player_blocks
    /\ discovered_tiles' = w.discovered_tiles
    /\ sky' = w.sky

-----------------------------------------------------------------------------
(* astar_path (src/entities.py).  The heap holds <<f, node>> tuples and    *)
(* heappop takes the least of them in the order of Python's tuples: by f,  *)
(* then by x, then by y.  A node is pushed again only with a smaller g, so *)
(* no tuple is in the heap twice and the heap is kept as a set.            *)

Abs(n) == IF n < 0 THEN 0 - n ELSE n

Manhattan(a, b) == Abs(a[1] - b[1]) + Abs(a[2] - b[2])

\* h(a, b) of the source.
HeuristicOverRows(a, b) == 5 * Abs(a[2] - b[2])
HeuristicZero(a, b) == 0
Heuristic(a, b) == Manhattan(a, b)

Unreached == 10 ^ 9

NeighboursOf(c) ==
    << <<c[1] + 1, c[2]>>, <<c[1] - 1, c[2]>>,
       <<c[1], c[2] + 1>>, <<c[1], c[2] - 1>> >>

Least(values) == CHOOSE v \in values : \A o \in values : v <= o

\* heappop: the least tuple, by f, then by x, then by y.
HeapTop(open_set) ==
    LET f == Least({e[1] : e \in open_set})
        x == Least({e[2][1] : e \in {o \in open_set : o[1] = f}})
        y == Least({e[2][2] : e \in {o \in open_set :
                                        o[1] = f /\ o[2][1] = x}})
    IN  <<f, <<x, y>>>>

NoParent == [n \in {} |-> <<0, 0>>]

\* path = [current]; while current in came_from: ...; path.reverse()
RECURSIVE ReconstructPath(_, _, _)
ReconstructPath(came_from, current, path) ==
    IF current \in DOMAIN came_from
    THEN ReconstructPath(came_from, came_from[current],
                         <<came_from[current]>> \o path)
    ELSE path

\* One pass of the body of the for loop over the neighbours.
RelaxThroughSolid(s, current, n, goal) ==
    LET tentative == s.g_score[current] + 1 IN
    IF tentative < Get(s.g_score, n, Unreached)
    THEN [s EXCEPT
            !.came_from = [k \in DOMAIN @ \cup {n} |->
                              IF k = n THEN current ELSE @[k]],
            !.g_score = [k \in DOMAIN @ \cup {n} |->
                            IF k = n THEN tentative ELSE @[k]],
            !.open_set = @ \cup {<<tentative + Heuristic(n, goal), n>>}]
    ELSE s
Relax(s, current, n, goal) ==
    LET solid == is_solid_tile(s.world, n[1], n[2])
        s1 == [s EXCEPT !.world = solid.world]
        tentative == s.g_score[current] + 1
    IN  IF solid.ret THEN s1
        ELSE IF tentative < Get(s.g_score, n, Unreached)
        THEN [s1 EXCEPT
                !.came_from = [k \in DOMAIN @ \cup {n} |->
                                  IF k = n THEN current ELSE @[k]],
                !.g_score = [k \in DOMAIN @ \cup {n} |->
                                IF k = n THEN tentative ELSE @[k]],
                !.open_set = @ \cup {<<tentative + Heuristic(n, goal), n>>}]
        ELSE s1

RECURSIVE RelaxAll(_, _, _, _)
RelaxAll(s, current, k, goal) ==
    IF k > 4 THEN s
    ELSE RelaxAll(Relax(s, current, NeighboursOf(current)[k], goal),
                  current, k + 1, goal)

WithinBudgetInclusive(explored, max_nodes) == explored <= max_nodes
WithinBudget(explored, max_nodes) == explored < max_nodes

\* The while loop; explored counts the nodes popped.
RECURSIVE AstarLoop(_, _, _)
AstarLoop(s, goal, max_nodes) ==
    IF s.open_set # {} /\ WithinBudget(s.explored, max_nodes)
    THEN LET top == HeapTop(s.open_set)
             current == top[2]
             popped == [s EXCEPT !.explored = @ + 1,
                                 !.open_set = @ \ {top}]
         IN  IF current = goal
             THEN [path |-> ReconstructPath(s.came_from, current,
                                            <<current>>),
                   explored |-> popped.explored, world |-> s.world]
             ELSE AstarLoop(RelaxAll(popped, current, 1, goal), goal,
                            max_nodes)
    ELSE [path |-> <<>>, explored |-> s.explored, world |-> s.world]

astar_path(start, goal, w, max_nodes) ==
    IF start = goal
    THEN [path |-> <<start>>, explored |-> 0, world |-> w]
    ELSE AstarLoop([open_set |-> {<<0, start>>}, came_from |-> NoParent,
                    g_score |-> [n \in {start} |-> 0], explored |-> 0,
                    world |-> w],
                   goal, max_nodes)


-----------------------------------------------------------------------------
(* EntityManager and CombatSystem (src/entities.py, src/combat.py).        *)
(*                                                                         *)
(* The square of a length would not fit a machine integer in units of      *)
(* 1/PX pixel, so it is kept as <<whole, part>>: whole square pixels and   *)
(* the rest in units of 1/PX^2.  Directions are unit vectors along an      *)
(* axis: the actors of the model stand where the source normalises such    *)
(* vectors only.                                                           *)

Sq(a) ==
    LET n == Abs(a)
        a1 == n \div PX
        a0 == n % PX
        m == 2 * a1 * a0
        lo == (m % PX) * PX + a0 * a0
    IN  <<a1 * a1 + m \div PX + lo \div (PX * PX), lo % (PX * PX)>>

SqAdd(p, q) ==
    <<p[1] + q[1] + (p[2] + q[2]) \div (PX * PX), (p[2] + q[2]) % (PX * PX)>>

SqTimes(k, p) ==
    LET h == k * (p[2] \div PX)
        t == (h % PX) * PX + k * (p[2] % PX)
    IN  <<k * p[1] + h \div PX + t \div (PX * PX), t % (PX * PX)>>

SqLess(p, q) == p[1] < q[1] \/ (p[1] = q[1] /\ p[2] < q[2])

\* The square of n pixels.
Pixels2(n) == <<n * n, 0>>

\* dx * dx + dy * dy
Dist2(dx, dy) == SqAdd(Sq(dx), Sq(dy))

Sgn(n) == IF n > 0 THEN 1 ELSE IF n < 0 THEN -1 ELSE 0

\* pygame.Vector2.normalize of a vector along an axis.
Normalize(v) ==
    CASE v[2] = 0 -> <<Sgn(v[1]), 0>>
      [] v[1] = 0 /\ v[2] # 0 -> <<0, Sgn(v[2])>>

\* ent.x += ent.dir.x * speed * dt, with speed = ent.speed * factor / 10000.
Moved(ent, factor, dt) ==
    [ent EXCEPT !.x = @ + (ent.dir[1] * ent.speed * factor * dt) \div 2500,
                !.y = @ + (ent.dir[2] * ent.speed * factor * dt) \div 2500]

TileOf(x) == x \div (TILE_SIZE * PX)

Projectile(x, y, vx, vy, life, damage, kind) ==
    [x |-> x, y |-> y, vx |-> vx, vy |-> vy, life |-> life,
     damage |-> damage, kind |-> kind]

\* The centre of the player: x + w / 2, y + h / 2.
Center(av) == <<av.x + 12 * PX, av.y + 17 * PX>>

AllyStats(ally_type) ==
    CASE ally_type = "spirit" -> <<95, 125, 10>>
      [] ally_type = "wolf_ally" -> <<120, 140, 11>>
      [] ally_type = "knight" -> <<170, 95, 13>>
      [] OTHER -> <<90, 120, 10>>

SummonsWandering(ents, x, y, ally_type) ==
    Append(ents,
           BaseEntity(x, y, ally_type, "allies", AllyStats(ally_type)[1],
                      AllyStats(ally_type)[2], AllyStats(ally_type)[3]))
summon_ally(ents, x, y, ally_type) ==
    Append(ents,
           [BaseEntity(x, y, ally_type, "allies", AllyStats(ally_type)[1],
                       AllyStats(ally_type)[2], AllyStats(ally_type)[3])
               EXCEPT !.state = "assist"])

SpawnStats(etype) ==
    CASE etype = "slime" -> <<25, 70, 10>>
      [] etype = "goblin" -> <<35, 90, 12>>
      [] etype = "wolf" -> <<30, 108, 10>>

MaxPopulation == 55

\* The draw is either NoSpawn, for random() >= 0.02, or <<etype, x, y>>
\* with (x, y) the offset cos(angle) * dist, sin(angle) * dist.
NoSpawn == <<>>

SpawnsInAnyCrowd(ents, player_x, player_y, draw) ==
    IF draw # NoSpawn
    THEN Append(ents,
                BaseEntity(player_x + draw[2], player_y + draw[3], draw[1],
                           "monsters", SpawnStats(draw[1])[1],
                           SpawnStats(draw[1])[2], SpawnStats(draw[1])[3]))
    ELSE ents

spawn_near_player(ents, player_x, player_y, draw) ==
    IF Len(ents) > MaxPopulation THEN ents
    ELSE IF draw # NoSpawn
    THEN Append(ents,
                BaseEntity(player_x + draw[2], player_y + draw[3], draw[1],
                           "monsters", SpawnStats(draw[1])[1],
                           SpawnStats(draw[1])[2], SpawnStats(draw[1])[3]))
    ELSE ents

\* The index of the entity nearest_entity returns, or 0 for None.
RECURSIVE NearestFrom(_, _, _, _, _, _, _)
NearestFrom(ents, x, y, faction_filter, k, best, found) ==
    IF k > Len(ents) THEN found
    ELSE LET ent == ents[k]
             d2 == Dist2(ent.x - x, ent.y - y)
         IN  IF ent.hp <= 0 \/ ent.faction # faction_filter
             THEN NearestFrom(ents, x, y, faction_filter, k + 1, best, found)
             ELSE IF SqLess(d2, best)
             THEN NearestFrom(ents, x, y, faction_filter, k + 1, d2, k)
             ELSE NearestFrom(ents, x, y, faction_filter, k + 1, best, found)

nearest_entity(ents, x, y, max_dist, faction_filter) ==
    NearestFrom(ents, x, y, faction_filter, 1, Pixels2(max_dist), 0)

damage_entity(ent, amount) == [ent EXCEPT !.hp = @ - amount]

Hostile == {"monsters", "boss"}

TimerOnly(ent, dist2, d) == [ent EXCEPT !.ai_timer = d.timer]

\* The body of `if ent.ai_timer <= 0`: a new timer and a new state.
Redrawn(ent, dist2, d) ==
    LET e == [ent EXCEPT !.ai_timer = d.timer] IN
    IF e.faction \in Hostile /\ SqLess(dist2, Pixels2(300))
    THEN [e EXCEPT !.state = "chase"]
    ELSE IF e.faction = "allies" THEN [e EXCEPT !.state = "assist"]
    ELSE IF e.faction = "villagers" /\ SqLess(dist2, Pixels2(130))
    THEN [e EXCEPT !.state = "social"]
    ELSE [e EXCEPT !.state = "wander", !.dir = d.wander]

AlwaysReconsidered(ent, dist2, d) == Redrawn(ent, dist2, d)

\* The part of the loop of update that follows ent.ai_timer -= dt * scale:
\* the state is drawn again when the timer has run out.
Reconsidered(ent, dist2, d) ==
    IF ent.ai_timer <= 0 THEN Redrawn(ent, dist2, d) ELSE ent

\* The state s is [entities, player, avatar, world, logs]; entity i takes
\* its turn in the loop of update.
\* The chase branch once astar_path has returned found.
Pursue(s, i, ent, dx, dy, dist2, scale, dt, found) ==
    LET path == found.path
        vec == IF Len(path) > 1
               THEN <<path[2][1] * TILE_SIZE * PX + (TILE_SIZE * PX) \div 2
                         - ent.x,
                      path[2][2] * TILE_SIZE * PX + (TILE_SIZE * PX) \div 2
                         - ent.y>>
               ELSE <<dx, dy>>
        turned == IF vec # <<0, 0>>
                  THEN [ent EXCEPT !.dir = Normalize(vec)] ELSE ent
        bite == IF ent.faction = "boss" THEN 6 ELSE 3
    IN  [s EXCEPT !.entities[i] = Moved(turned, scale * 100, dt),
                  !.world = found.world,
                  !.player.hp = IF SqLess(dist2, Pixels2(28))
                                THEN Max(0, @ - bite) ELSE @]

Chase(s, i, ent, dx, dy, dist2, scale, dt) ==
    Pursue(s, i, ent, dx, dy, dist2, scale, dt,
           astar_path(<<TileOf(ent.x), TileOf(ent.y)>>,
                      <<TileOf(s.avatar.x), TileOf(s.avatar.y)>>,
                      s.world, 220))

Social(s, i, ent, dist2, d) ==
    IF SqLess(dist2, Pixels2(80)) /\ ent.talk_cooldown <= 0 /\ d.talk
    THEN [s EXCEPT !.entities[i] = [ent EXCEPT !.talk_cooldown = 8 * SECOND],
                   !.logs = Append(@, [type |-> "dialogue",
                                       etype |-> ent.etype])]
    ELSE [s EXCEPT !.entities[i] = ent]

BossBeforeMonsters(s, ent) ==
    LET near == nearest_entity(s.entities, ent.x, ent.y, 260, "boss")
    IN  IF near # 0 THEN near
        ELSE nearest_entity(s.entities, ent.x, ent.y, 300, "monsters")

\* The target of the assist branch: the index of the entity, or 0 for None.
AssistTarget(s, ent) ==
    LET near == nearest_entity(s.entities, ent.x, ent.y, 260, "monsters")
    IN  IF near # 0 THEN near
        ELSE nearest_entity(s.entities, ent.x, ent.y, 300, "boss")

\* The assist branch once the target t is known.
AssistToward(s, i, ent, scale, dt, t) ==
    IF t # 0
    THEN LET target == s.entities[t]
             vec == <<target.x - ent.x, target.y - ent.y>>
             turned == IF vec # <<0, 0>>
                       THEN [ent EXCEPT !.dir = Normalize(vec)] ELSE ent
             reach == ent.radius + target.radius + 10
             s1 == [s EXCEPT !.entities[i] =
                                Moved(turned, scale * 100, dt)]
         IN  IF SqLess(Dist2(vec[1], vec[2]), Pixels2(reach))
             THEN [s1 EXCEPT !.entities[t].hp = @ - 5]
             ELSE s1
    ELSE LET vec == <<s.avatar.x - ent.x, s.avatar.y - ent.y>> IN
         IF SqLess(<<40, 0>>, Dist2(vec[1], vec[2]))
         THEN [s EXCEPT !.entities[i] =
                  Moved([ent EXCEPT !.dir = Normalize(vec)], 7000, dt)]
         ELSE [s EXCEPT !.entities[i] = ent]

\* The assist branch; aim keeps the target and the list it was chosen from.
Assist(s, i, ent, scale, dt) ==
    [AssistToward(s, i, ent, scale, dt, AssistTarget(s, ent))
        EXCEPT !.aim = [t |-> AssistTarget(s, ent), seen |-> s.entities]]

\* basic collision correction with solid tiles
Bounced(s, i, dt, solid) ==
    LET ent == s.entities[i]
        s1 == [s EXCEPT !.world = solid.world]
    IN  IF solid.ret
        THEN [s1 EXCEPT !.entities[i] =
                 [ent EXCEPT
                    !.x = @ - (ent.dir[1] * ent.speed * 10000 * dt) \div 2500,
                    !.y = @ - (ent.dir[2] * ent.speed * 10000 * dt) \div 2500,
                    !.dir = <<0 - ent.dir[1], 0 - ent.dir[2]>>]]
        ELSE s1

Corrected(s, i, dt) ==
    Bounced(s, i, dt, is_solid_tile(s.world, TileOf(s.entities[i].x),
                                    TileOf(s.entities[i].y)))

NoAim == [t |-> 0, seen |-> <<>>]

\* What the turn of entity i did before the correction: where the entity
\* was when its turn began (e0), where the branch of its state left it and
\* the heading it has there.
Stepped(s, i, e0) ==
    [s EXCEPT !.steps = Append(@, [i |-> i, pre |-> <<e0.x, e0.y>>,
                                   post |-> <<s.entities[i].x,
                                              s.entities[i].y>>,
                                   dir |-> s.entities[i].dir,
                                   aim |-> IF s.entities[i].state = "assist"
                                           THEN s.aim ELSE NoAim])]

ActsWhenDead(ent) == FALSE
Skipped(ent) == ent.hp <= 0

\* One pass of the body of the loop over self.entities.
EntityTurn(s, i, dt, d) ==
    IF Skipped(s.entities[i]) THEN s
    ELSE
        LET scale == IF s.avatar.time_slow > 0 THEN 45 ELSE 100
            e0 == s.entities[i]
            e1 == [e0 EXCEPT !.ai_timer = @ - (dt * scale) \div 100,
                             !.talk_cooldown = IF @ > 0 THEN @ - dt ELSE @]
            dx == s.avatar.x - e1.x
            dy == s.avatar.y - e1.y
            dist2 == Dist2(dx, dy)
            ent == Reconsidered(e1, dist2, d)
            acted ==
                IF ent.state = "chase" /\ SqLess(Pixels2(2), dist2)
                THEN Chase(s, i, ent, dx, dy, dist2, scale, dt)
                ELSE IF ent.state = "social"
                THEN Social(s, i, ent, dist2, d)
                ELSE IF ent.state = "assist"
                THEN Assist([s EXCEPT !.entities[i] = ent], i, ent, scale, dt)
                ELSE [s EXCEPT !.entities[i] = Moved(ent, 45 * scale, dt)]
        IN  Corrected(Stepped(acted, i, e0), i, dt)

RECURSIVE EntityLoop(_, _, _, _)
EntityLoop(s, i, dt, d) ==
    IF i > Len(s.entities) THEN s
    ELSE EntityLoop(EntityTurn(s, i, dt, d), i + 1, dt, d)

KeepsAll(ent) == TRUE
Alive(ent) == ent.hp > 0

LootExp(ent) == IF ent.faction = "monsters" THEN 14 ELSE 60

LootOfAnyFaction(ent) == TRUE
DropsLoot(ent) == ent.faction \in Hostile

\* The loot logs of the sweep, in the order of the list.
RECURSIVE LootLogs(_, _)
LootLogs(ents, d) ==
    IF ents = <<>> THEN <<>>
    ELSE (IF ~Alive(ents[1]) /\ DropsLoot(ents[1])
          THEN <<[type |-> "loot", item |-> d.drop, x |-> ents[1].x,
                  y |-> ents[1].y, exp |-> LootExp(ents[1])]>>
          ELSE <<>>)
         \o LootLogs(Tail(ents), d)

\* The sweep that follows the loop and the call of spawn_near_player.
\* The field looped is the list as the loop leaves it, before the sweep.
Swept(looped, d) ==
    [looped EXCEPT
        !.logs = @ \o LootLogs(looped.entities, d),
        !.entities = spawn_near_player(SelectSeq(looped.entities, Alive),
                                       looped.avatar.x, looped.avatar.y,
                                       d.spawn)]
    @@ [looped |-> looped.entities]

\* EntityManager.update
entities_update(s, dt, d) == Swept(EntityLoop(s, 1, dt, d), d)

\* CombatSystem.update
RECURSIVE FlownProjectiles(_, _)
FlownProjectiles(ps, dt) ==
    IF ps = <<>> THEN <<>>
    ELSE LET p == ps[1]
             q == [p EXCEPT !.life = @ - dt,
                            !.x = @ + (p.vx * dt * 4),
                            !.y = @ + (p.vy * dt * 4)]
         IN  (IF q.life > 0 THEN <<q>> ELSE <<>>)
             \o FlownProjectiles(Tail(ps), dt)

combat_update(c, dt) ==
    [attack_cooldown |-> IF c.attack_cooldown > 0
                         THEN c.attack_cooldown - dt ELSE c.attack_cooldown,
     cast_cooldown |-> IF c.cast_cooldown > 0
                       THEN c.cast_cooldown - dt ELSE c.cast_cooldown,
     projectiles |-> FlownProjectiles(c.projectiles, dt)]

\* Whether melee_attack strikes ent: alive, no villager, within 58 pixels
\* of the centre and, unless on it, with dot >= 0.2, the facing being a
\* unit vector along an axis.
InArc(ent, av) ==
    LET dx == ent.x - Center(av)[1]
        dy == ent.y - Center(av)[2]
        d2 == Dist2(dx, dy)
    IN  /\ ent.hp > 0
        /\ ent.faction # "villagers"
        /\ ~SqLess(Pixels2(58), d2)
        /\ d2 # <<0, 0>> =>
              LET along == dx * av.facing[1] + dy * av.facing[2] IN
              /\ along > 0
              /\ ~SqLess(SqTimes(25, Sq(along)), d2)

MeleeDamage(p, av) ==
    16 + p.level * 2 + (IF av.cheat_mode THEN 8 ELSE 0)

RECURSIVE MeleeLoop(_, _)
MeleeLoop(s, i) ==
    IF i > Len(s.entities) THEN s
    ELSE IF InArc(s.entities[i], s.avatar)
    THEN LET hurt == damage_entity(s.entities[i],
                                   MeleeDamage(s.player, s.avatar))
         IN  MeleeLoop([s EXCEPT !.entities[i] = hurt,
                                 !.hit = @ + 1,
                                 !.player = IF hurt.hp <= 0
                                            THEN gain_exp(@, 20) ELSE @],
                       i + 1)
    ELSE MeleeLoop(s, i + 1)

\* melee_attack with melee_mult = 1.0 and no critical hit (level < 5).
melee_attack(s) ==
    IF s.combat.attack_cooldown > 0 THEN s
    ELSE MeleeLoop([s EXCEPT !.combat.attack_cooldown = (3 * SECOND) \div 10],
                   1)

\* cast_projectile of a fireball with power_mult = 1.0.
cast_projectile(s) ==
    IF s.combat.cast_cooldown > 0 \/ s.player.mana < 12 THEN s
    ELSE [s EXCEPT
            !.player.mana = @ - 12,
            !.combat.cast_cooldown = SECOND \div 4,
            !.combat.projectiles =
                Append(@, Projectile(Center(s.avatar)[1], Center(s.avatar)[2],
                                     s.avatar.facing[1] * 320,
                                     s.avatar.facing[2] * 320,
                                     (18 * SECOND) \div 10,
                                     22 + s.player.level * 2
                                        + (IF s.avatar.cheat_mode
                                           THEN 10 ELSE 0),
                                     "fireball"))]

\* The index of the first entity projectile p collides with, or 0.
FirstStruck(ents, p) ==
    LET struck == {k \in 1..Len(ents) :
                     /\ ents[k].hp > 0
                     /\ ents[k].faction # "villagers"
                     /\ ~SqLess(Pixels2(ents[k].radius + 6),
                                Dist2(ents[k].x - p.x, ents[k].y - p.y))}
    IN  IF struck = {} THEN 0 ELSE Least(struck)

RECURSIVE ResolveLoop(_, _, _)
ResolveLoop(s, ps, kept) ==
    IF ps = <<>> THEN [s EXCEPT !.combat.projectiles = kept]
    ELSE LET k == FirstStruck(s.entities, ps[1]) IN
         IF k = 0 THEN ResolveLoop(s, Tail(ps), Append(kept, ps[1]))
         ELSE LET hurt == damage_entity(s.entities[k], ps[1].damage) IN
              ResolveLoop([s EXCEPT
                              !.entities[k] = hurt,
                              !.player = IF hurt.hp <= 0
                                         THEN gain_exp(@, 28) ELSE @,
                              !.logs = Append(@, [type |-> "combat",
                                                  kind |-> ps[1].kind])],
                          Tail(ps), kept)

resolve_projectiles(s) == ResolveLoop(s, s.combat.projectiles, <<>>)

-----------------------------------------------------------------------------
(* WorldEvent and the templates (src/events.py).                           *)

\* A title is the tuple of the parts the source formats into the string.
RuinsVariant == "ancient ruins appeared"
BlessingTwist == "a god offers blessing or curse"
RaidVariants == {"bandit raid", "monster wave", "demon invasion"}
WorldVariants == {"meteor shower", RuinsVariant, "merchant caravan attacked"}
IsekaiTwists == {"gates to the modern world opened", BlessingTwist,
                 "a rival hero from isekai appeared"}
VillageTitle == <<"request of the grateful village">>
RivalTitle == <<"ambush of the rival hero">>

\* "руин" in event.title.lower()  /  "благослов" in event.title.lower()
TitleHasRuins(title) == \E k \in 1..Len(title) : title[k] = RuinsVariant
TitleHasBlessing(title) == \E k \in 1..Len(title) : title[k] = BlessingTwist

NextIdSkipsIncrement(nid) == nid
NextIdAfterNew(nid) == nid + 1

\* The description is a text made for the title; nothing reads it but
\* to_dict.
Description(title) == <<"description of">> \o title

WorldEvent(eid, etype, title, biome, difficulty, reward, timer, chain_tag) ==
    [eid |-> eid, etype |-> etype, title |-> title,
     description |-> Description(title), biome |-> biome,
     difficulty |-> difficulty, reward |-> reward, timer |-> timer,
     chain_tag |-> chain_tag, resolved |-> FALSE]

Reward(exp, rep, items) == [exp |-> exp, rep |-> rep, items |-> items]

\* Stands for "no event" where a record is needed.
NoEvent == WorldEvent(0, "", <<>>, "", 0, Reward(0, 0, <<>>), 0, "")

\* The events _generate_template can return for the draws In allows.
Templates(In, nid, biome, is_night, player_level) ==
    UNION {
        LET diff == Max(1, player_level + jitter) IN
        (IF "raid" \in In.etypes
         THEN {WorldEvent(nid, "raid", <<"raid", v, biome>>, biome, diff,
                   Reward(25 + diff * 8, 2 + diff \div 2,
                          <<<<"gold", 2 + diff>>>>),
                   timer, "defense") : v \in In.raid_variants}
         ELSE {})
        \cup
        (IF "quest" \in In.etypes
         THEN {WorldEvent(nid, "quest", <<"quest", v>>, biome, diff,
                   Reward(35 + diff * 10, 3 + diff, <<<<item, 3 + diff>>>>),
                   timer, "questline") :
                   v \in In.quest_objectives, item \in In.quest_items}
         ELSE {})
        \cup
        (IF "world" \in In.etypes
         THEN {WorldEvent(nid, "world", <<"world", v>>, biome, diff,
                   Reward(20 + diff * 6, 1 + diff \div 2,
                          <<<<item, 2 + diff>>>>),
                   timer, "worldshift") :
                   v \in In.world_variants, item \in In.world_items}
         ELSE {})
        \cup
        (IF "isekai" \in In.etypes
         THEN {WorldEvent(nid, "isekai", <<"isekai", v>>, biome, diff,
                   Reward(45 + diff * 7, rep,
                          <<<<"gold", 4 + diff>>>>
                          \o (IF is_night
                              THEN <<<<"core", 1 + diff \div 2>>>>
                              ELSE <<>>)),
                   timer, "isekai") :
                   v \in In.isekai_twists, rep \in In.isekai_reps}
         ELSE {})
        : jitter \in In.jitters, timer \in In.timers }

-----------------------------------------------------------------------------
(* _apply_world_impact.  The draws d it consumes:                          *)
(*   d.half   rng.random() < 0.5                                           *)
(*   d.key    the player block rng.choice picks                            *)
(*   d.spawn  for each raid monster its (x, y, kind)                       *)
(*   d.ruin   the centre (tx, ty) of the ruins                             *)
(*   d.chain  the chain draw of complete_event succeeds                    *)

RaidSpawnCount(event) == Min(MaxRaidSpawn, 1 + event.difficulty \div 2)

RaidBoss(event, draw) ==
    BaseEntity(draw[1], draw[2], draw[3], "boss",
               28 + event.difficulty * 2, 80 + event.difficulty * 2, 11)

RaidMonster(event, draw) ==
    BaseEntity(draw[1], draw[2], draw[3], "monsters",
               28 + event.difficulty * 2, 80 + event.difficulty * 2, 11)

RuinTiles(centre) ==
    {<<centre[1] + ox, centre[2] + oy>> :
        ox \in (-RuinRadius)..RuinRadius, oy \in (-RuinRadius)..RuinRadius}

StampRuins(blocks, centre) ==
    [k \in DOMAIN blocks \cup RuinTiles(centre) |->
        IF k \in RuinTiles(centre) THEN "wall" ELSE blocks[k]]

\* The world, the entities and the relations after the impact, and its text.
apply_world_impact(event, blocks, ents, rel, d) ==
    LET same == [blocks |-> blocks, entities |-> ents, relations |-> rel] IN
    IF event.etype = "raid"
    THEN IF d.half /\ DOMAIN blocks # {}
         THEN [same EXCEPT !.blocks =
                              remove_player_block(blocks, d.key[1], d.key[2])]
              @@ [text |-> "raid damaged a base wall"]
         ELSE [same EXCEPT !.entities =
                  ents \o [i \in 1..RaidSpawnCount(event) |->
                              RaidMonster(event, d.spawn[i])]]
              @@ [text |-> "monster forces entered the region"]
    ELSE IF event.etype = "world" /\ TitleHasRuins(event.title)
    THEN [same EXCEPT !.blocks = StampRuins(blocks, d.ruin)]
         @@ [text |-> "ancient ruins formed a structure"]
    ELSE IF event.etype = "isekai" /\ TitleHasBlessing(event.title)
    THEN IF d.half
         THEN [same EXCEPT !.relations =
                  RelationSet(rel, <<"player", "villagers">>,
                      RelationGet(rel, <<"player", "villagers">>, 0) + 10)]
              @@ [text |-> "blessing raised the villagers' trust"]
         ELSE [same EXCEPT !.relations =
                  RelationSet(rel, <<"player", "monsters">>,
                      RelationGet(rel, <<"player", "monsters">>, -80) - 10)]
              @@ [text |-> "curse made the monsters more aggressive"]
    ELSE same @@ [text |-> "the world changed unnoticeably"]

NoDraw == [half |-> FALSE, key |-> <<0, 0>>, spawn |-> <<>>,
           ruin |-> <<0, 0>>, chain |-> TRUE]

\* The tags complete_event compares before it draws for a follow-up.
ChainTags == {"defense", "questline"}

\* The draws a completion of event can consume, over the inputs In.  A draw
\* the code does not make for this event keeps its value of NoDraw.
ImpactDraws(In, event, blocks) ==
    IF event.etype = "raid"
    THEN {[NoDraw EXCEPT !.half = TRUE, !.key = k] : k \in DOMAIN blocks}
         \cup {[NoDraw EXCEPT !.spawn = s] :
                 s \in [1..RaidSpawnCount(event) -> In.spawns]}
    ELSE IF event.etype = "world" /\ TitleHasRuins(event.title)
    THEN {[NoDraw EXCEPT !.ruin = c] : c \in In.ruin_centres}
    ELSE IF event.etype = "isekai" /\ TitleHasBlessing(event.title)
    THEN {[NoDraw EXCEPT !.half = h] : h \in BOOLEAN}
    ELSE {NoDraw}

CompletionDraws(In, event, blocks) ==
    {[d EXCEPT !.chain = c] :
        d \in ImpactDraws(In, event, blocks),
        c \in IF event.chain_tag \in ChainTags THEN In.chains ELSE {TRUE}}

-----------------------------------------------------------------------------
(* complete_event.  An engine state st is the record of the fields a call  *)
(* can change, with st.calls the completions made since the call began.    *)

EngineState ==
    [active_events |-> active_events, completed_events |-> completed_events,
     next_event_id |-> next_event_id, player |-> player,
     player_blocks |-> player_blocks, entities |-> entities,
     faction_relations |-> faction_relations, calls |-> <<>>,
     timed_out |-> {}, logs |-> <<>>]

MatchesAnyUnresolved(event, event_id) == ~event.resolved
MatchesResolvedToo(event, event_id) == event.eid = event_id
Matches(event, event_id) == event.eid = event_id /\ ~event.resolved

\* The index of the event the loop of complete_event stops at, or 0.
FirstMatch(events, event_id) ==
    IF \E i \in 1..Len(events) : Matches(events[i], event_id)
    THEN CHOOSE i \in 1..Len(events) :
            /\ Matches(events[i], event_id)
            /\ \A j \in 1..(i - 1) : ~Matches(events[j], event_id)
    ELSE 0

GrantReward(p, reward) ==
    LET p1 == gain_exp(p, reward.exp) IN
    [p1 EXCEPT !.reputation = @ + reward.rep,
               !.slots = add_items(@, reward.items)]

DefenseFollowDifficulty(event) == Max(1, event.difficulty)
QuestlineFollowSameDifficulty(event) == event.difficulty
QuestlineFollowDifficulty(event) == event.difficulty + 1

DefenseFollowKeepsTag(event, nid) ==
    WorldEvent(nid, "quest", VillageTitle, event.biome,
               DefenseFollowDifficulty(event),
               Reward(45, 4, <<<<"gold", 6>>>>),
               DefenseFollowTimer, event.chain_tag)

DefenseFollow(event, nid) ==
    WorldEvent(nid, "quest", VillageTitle, event.biome,
               DefenseFollowDifficulty(event),
               Reward(45, 4, <<<<"gold", 6>>>>),
               DefenseFollowTimer, "questline")

QuestlineFollow(event, nid) ==
    WorldEvent(nid, "isekai", RivalTitle, event.biome,
               QuestlineFollowDifficulty(event),
               Reward(65, 2, <<<<"core", 2>>, <<"gold", 5>>>>),
               QuestlineFollowTimer, "isekai")

\* The follow-up events the completion of event appends: none or one.
FollowUpsAlsoIsekai(event, nid, chain) ==
    IF event.chain_tag = "defense" /\ chain
    THEN <<DefenseFollow(event, nid)>>
    ELSE IF event.chain_tag \in {"questline", "isekai"} /\ chain
    THEN <<QuestlineFollow(event, nid)>>
    ELSE <<>>
FollowUps(event, nid, chain) ==
    IF event.chain_tag = "defense" /\ chain
    THEN <<DefenseFollow(event, nid)>>
    ELSE IF event.chain_tag = "questline" /\ chain
    THEN <<QuestlineFollow(event, nid)>>
    ELSE <<>>

Message(event, impact, follows) ==
    IF follows = <<>> THEN <<"event completed", event.title, impact>>
    ELSE <<"event completed", event.title, impact, follows[1].title>>

\* The body of the loop of complete_event at the event it stops at.
CompleteAt(st, i, d) ==
    LET event == st.active_events[i]
        w == apply_world_impact(event, st.player_blocks, st.entities,
                                st.faction_relations, d)
        follows == FollowUps(event, st.next_event_id, d.chain)
        msg == Message(event, w.text, follows)
    IN  [st EXCEPT
            !.active_events = [@ EXCEPT ![i].resolved = TRUE] \o follows,
            !.player = GrantReward(@, event.reward),
            !.player_blocks = w.blocks,
            !.entities = w.entities,
            !.faction_relations = w.relations,
            !.completed_events = Append(@, event.title),
            !.next_event_id = IF follows = <<>> THEN @ ELSE NextIdAfterNew(@),
            !.calls = Append(@, [event_id |-> event.eid, ret |-> msg,
                                 matched |-> TRUE, parent |-> event,
                                 follows |-> follows, chain |-> d.chain])]

NoMatch(st, event_id) ==
    [st EXCEPT !.calls = Append(@, [event_id |-> event_id, ret |-> None,
                                    matched |-> FALSE, parent |-> NoEvent,
                                    follows |-> <<>>, chain |-> FALSE])]

\* Every state complete_event(event_id) can leave st in, over the draws In
\* allows; a chain that would pass the cap In.max_id is not drawn.
complete_event(In, st, event_id) ==
    LET i == FirstMatch(st.active_events, event_id) IN
    IF i = 0 THEN {NoMatch(st, event_id)}
    ELSE {CompleteAt(st, i, d) :
            d \in {c \in CompletionDraws(In, st.active_events[i],
                                         st.player_blocks) :
                     FollowUps(st.active_events[i], st.next_event_id,
                               c.chain) = <<>>
                     \/ st.next_event_id <= In.max_id}}

-----------------------------------------------------------------------------
(* update.                                                                 *)

CanGenerateAtCap(trigger, events) ==
    trigger /\ Len(events) <= MaxActiveEvents
CanGenerate(trigger, events) ==
    trigger /\ Len(events) < MaxActiveEvents

TimedOutNever(event) == FALSE
TimedOutBelowZero(event) == event.timer < 0
TimedOut(event) == event.timer <= 0

\* The loop over active_events from index i on, keep being the list built
\* so far.  complete_event appends to the list the loop iterates, so a
\* follow-up is visited in the same call.  The result is every state the
\* loop can end in, with active_events replaced by keep.
RECURSIVE UpdateLoop(_, _, _, _, _)
UpdateLoop(In, st, keep, i, dt) ==
    IF i > Len(st.active_events)
    THEN {[st EXCEPT !.active_events = keep]}
    ELSE IF st.active_events[i].resolved
    THEN UpdateLoop(In, st, keep, i + 1, dt)
    ELSE
        LET st1 == [st EXCEPT !.active_events[i].timer = @ - dt]
            event == st1.active_events[i]
        IN  IF TimedOut(event)
            THEN UpdateLoop(In,
                     [st1 EXCEPT !.timed_out = @ \cup {event.eid},
                                 !.logs = Append(@, <<"event", "failed",
                                                      event.title>>)],
                     keep, i + 1, dt)
            ELSE UNION {
                IF auto
                THEN UNION {
                        UpdateLoop(In,
                            [st2 EXCEPT !.logs =
                                LET msg == st2.calls[Len(st2.calls)].ret IN
                                IF msg # None
                                THEN Append(@, <<"event", msg>>) ELSE @],
                            IF st2.active_events[i].resolved
                            THEN keep
                            ELSE Append(keep, st2.active_events[i]),
                            i + 1, dt)
                        : st2 \in complete_event(In, st1, event.eid) }
                ELSE UpdateLoop(In, st1, Append(keep, event), i + 1, dt)
                : auto \in In.autos }

\* The template event is appended before the loop runs.
Generated(st, new_event) ==
    [st EXCEPT !.active_events = Append(@, new_event),
               !.next_event_id = NextIdAfterNew(@),
               !.logs = Append(@, <<"event", "new", new_event.title>>)]

Call(op, event_id, dt, ret, st, generated) ==
    [op |-> op, event_id |-> event_id, dt |-> dt, ret |-> ret,
     calls |-> st.calls, timed_out |-> st.timed_out,
     generated |-> generated]

SetEngine(st) ==
    /\ active_events' = st.active_events
    /\ completed_events' = st.completed_events
    /\ next_event_id' = st.next_event_id
    /\ player' = st.player
    /\ player_blocks' = st.player_blocks
    /\ entities' = st.entities
    /\ faction_relations' = st.faction_relations

update(In) ==
    \E dt \in In.dts, is_night \in In.nights, biome \in In.biomes :
    \E night_draw \in (IF is_night THEN In.triggers ELSE {FALSE}),
       level_draw \in (IF player.level >= LevelTriggerFrom
                       THEN In.triggers ELSE {FALSE}) :
        /\ game_minutes + dt <= In.max_minutes
        /\ LET countdown == next_event_in - dt
               flavor == next_flavor_in - dt
               trigger == countdown <= 0 \/ night_draw \/ level_draw
               generate == CanGenerate(trigger, active_events)
           IN  /\ generate => next_event_id <= In.max_id
               /\ \E new_event \in
                        (IF generate
                         THEN Templates(In, next_event_id, biome, is_night,
                                        player.level)
                         ELSE {NoEvent}),
                     next_in \in (IF generate THEN In.next_ins
                                  ELSE {countdown}),
                     flavor_in \in (IF flavor <= 0 THEN In.flavors
                                    ELSE {flavor}) :
                   LET st0 == IF generate
                              THEN Generated(EngineState, new_event)
                              ELSE EngineState
                       st1 == IF flavor <= 0
                              THEN [st0 EXCEPT !.logs =
                                       Append(@, <<"flavor", "line">>)]
                              ELSE st0
                   IN  \E st2 \in UpdateLoop(In, st1, <<>>, 1, dt) :
                        /\ SetEngine(st2)
                        /\ game_minutes' = game_minutes + dt
                        /\ next_event_in' = next_in
                        /\ next_flavor_in' = flavor_in
                        /\ last' = Call("update", 0, dt, st2.logs, st2,
                                        new_event.eid)
                                   @@ [trigger |-> trigger]
                        /\ UNCHANGED saved

\* The ids a caller is modelled to pass.  With In.any_id: those of the
\* listed events (resolved or not), 0, which no event carries, and the id
\* not yet given out.  Without: the id main passes on the G key, that of
\* active_events[0] when the list is not empty.
CallerIds(In) ==
    IF In.any_id
    THEN {active_events[i].eid : i \in 1..Len(active_events)}
         \cup {0, next_event_id}
    ELSE {active_events[i].eid : i \in 1..Min(1, Len(active_events))}

\* complete_event called from outside update, as the G key does.
CompleteEvent(In) ==
    \E event_id \in CallerIds(In) :
    \E st2 \in complete_event(In, EngineState, event_id) :
        /\ SetEngine(st2)
        /\ last' = Call("complete_event", event_id, 0, st2.calls[1].ret, st2,
                        0)
        /\ UNCHANGED <<game_minutes, next_event_in, next_flavor_in, saved>>

-----------------------------------------------------------------------------
(* The inputs of the specifications.                                       *)

FullInputs ==
    [dts |-> {6, 12}, nights |-> BOOLEAN, biomes |-> {"plains"},
     triggers |-> BOOLEAN, etypes |-> {"raid", "quest", "world", "isekai"},
     raid_variants |-> {"bandit raid"},
     quest_objectives |-> {"escort a caravan through monster roads"},
     quest_items |-> {"ore"},
     world_variants |-> {RuinsVariant},
     world_items |-> {"core"},
     isekai_twists |-> {BlessingTwist},
     isekai_reps |-> {-2},
     jitters |-> {-1, 3}, timers |-> {12}, next_ins |-> {12}, flavors |-> {3},
     spawns |-> {<<0, 0, "goblin">>}, ruin_centres |-> {<<0, 0>>},
     chains |-> BOOLEAN, autos |-> BOOLEAN, any_id |-> TRUE,
     max_id |-> MaxEventId, max_minutes |-> MaxGameMinutes]

\* The Player fields of position and powers after construction.
InitialAvatar ==
    [x |-> 200 * PX, y |-> 180 * PX, vx |-> 0, vy |-> 0, facing |-> <<1, 0>>,
     time_slow |-> 0, cheat_mode |-> FALSE]

\* The clock ticks of the frames handed to the cap, 50 ms and 200 ms.
ClockTicks == {SECOND \div 20, SECOND \div 5}

UncappedDt(tick) == tick

\* dt = clock.tick(FPS) / 1000.0; dt = min(dt, 0.05)
CapDt(tick) == Min(tick, SECOND \div 20)

\* No frame has ended yet.
NoFrame == [paused |-> FALSE, calls |-> <<>>, dt |-> 0]

\* The top of the main loop: the capped dt of the frame, no update called
\* yet.  ended is what the frame before did: whether it was paused, the
\* updates it called with their dt, and its own dt.
NewFrame(tick, ended) ==
    [pc |-> "events", handled |-> 0, logs |-> <<>>, dt |-> CapDt(tick),
     calls |-> <<>>, ended |-> ended]

Ended == [paused |-> paused, calls |-> frame.calls, dt |-> frame.dt]

\* CombatSystem after construction.
InitialCombat ==
    [projectiles |-> <<>>, attack_cooldown |-> 0, cast_cooldown |-> 0]

DefaultSeed == 42

\* World, CombatSystem and the rest of the Player after construction.
OutsideWith(s, file) ==
    /\ seed = s
    /\ chunks = NoChunks
    /\ discovered_tiles = {}
    /\ sky = InitialSky
    /\ saved_world = file
    /\ combat = InitialCombat
    /\ avatar = InitialAvatar
    /\ paused = FALSE
    /\ crafting = NoDrag
    /\ frame \in {NewFrame(tick, NoFrame) : tick \in ClockTicks}

OutsideInit == OutsideWith(DefaultSeed, NoSave)

\* The state after EventSystem, Player, World and EntityManager are built.
InitOf(In) ==
    /\ active_events = <<>>
    /\ completed_events = <<>>
    /\ next_event_id = 1
    /\ game_minutes = 0
    /\ next_event_in \in In.next_ins
    /\ next_flavor_in \in In.flavors
    /\ player = InitialPlayer
    /\ player_blocks = NoBlocks
    /\ entities = InitialPopulation
    /\ faction_relations = InitialRelations
    /\ saved = NoSave
    /\ last = [op |-> "init", event_id |-> 0, dt |-> 0, ret |-> None,
               calls |-> <<>>, timed_out |-> {}, generated |-> 0]
    /\ OutsideInit

Init == InitOf(FullInputs)
Update == update(FullInputs) /\ UNCHANGED outside
Complete == CompleteEvent(FullInputs) /\ UNCHANGED outside

Next == Update \/ Complete

Spec == Init /\ [][Next]_vars

-----------------------------------------------------------------------------
(* The specification of the capacity of active_events: raids only, which   *)
(* chain twice, with short ticks, so that five and more events can be      *)
(* listed at once.                                                         *)

CapacityInputs ==
    [FullInputs EXCEPT !.dts = {2}, !.nights = {TRUE}, !.triggers = {TRUE},
                       !.etypes = {"raid"}, !.jitters = {0}, !.timers = {13},
                       !.any_id = FALSE,
                       !.max_id = MaxCapacityEventId,
                       !.max_minutes = MaxCapacityMinutes]

CapacityInit == InitOf(CapacityInputs)
CapacityUpdate == update(CapacityInputs) /\ UNCHANGED outside
CapacityComplete == CompleteEvent(CapacityInputs) /\ UNCHANGED outside
CapacityNext == CapacityUpdate \/ CapacityComplete

SpecCapacity == CapacityInit /\ [][CapacityNext]_vars

-----------------------------------------------------------------------------
(* The specification of the countdown: quests without chains, by day and   *)
(* by night, with a countdown that is drawn as 2 or 10 and ticks of 2, so  *)
(* that the countdown runs out while five events are listed.               *)

MaxCountdownEventId == 7
MaxCountdownMinutes == 18

CountdownInputs ==
    [FullInputs EXCEPT !.dts = {2}, !.etypes = {"quest"}, !.jitters = {0},
                       !.timers = {13}, !.next_ins = {2, 10},
                       !.chains = {FALSE}, !.autos = {FALSE},
                       !.any_id = FALSE,
                       !.max_id = MaxCountdownEventId,
                       !.max_minutes = MaxCountdownMinutes]

CountdownInit == InitOf(CountdownInputs)
CountdownUpdate == update(CountdownInputs) /\ UNCHANGED outside
CountdownComplete == CompleteEvent(CountdownInputs) /\ UNCHANGED outside
CountdownNext == CountdownUpdate \/ CountdownComplete

SpecCountdown == CountdownInit /\ [][CountdownNext]_vars

-----------------------------------------------------------------------------
(* The specification of the life of an event: the countdown is drawn as 2  *)
(* minutes at construction and as 10 minutes after a generation, so that   *)
(* one template of any of the four types is generated in the second minute *)
(* and none for ten minutes after it; it is completed by the G key, by the *)
(* draw of the loop or not at all, with and without its follow-ups.  The   *)
(* main loop calls update in every frame that is not paused, which is the  *)
(* weak fairness of LeaveUpdate.                                           *)

MaxLeaveEventId == 3
MaxLeaveMinutes == 42

LeaveInputs ==
    [FullInputs EXCEPT !.nights = {FALSE}, !.jitters = {0},
                       !.next_ins = {60}, !.any_id = FALSE,
                       !.max_id = MaxLeaveEventId,
                       !.max_minutes = MaxLeaveMinutes]

LeaveInit == InitOf([LeaveInputs EXCEPT !.next_ins = {12}])
LeaveUpdate == update(LeaveInputs) /\ UNCHANGED outside
LeaveComplete == CompleteEvent(LeaveInputs) /\ UNCHANGED outside
LeaveNext == LeaveUpdate \/ LeaveComplete

SpecLeave == LeaveInit /\ [][LeaveNext]_vars /\ WF_vars(LeaveUpdate)

-----------------------------------------------------------------------------
(* to_dict, and the specification of the completion history: one world     *)
(* event per tick, resolved by the auto-resolve draw in the tick that       *)
(* creates it, and a save at any moment.                                   *)

LastN(seq, n) ==
    IF Len(seq) <= n THEN seq ELSE SubSeq(seq, Len(seq) - n + 1, Len(seq))

KeptHistoryAll(completed) == completed
KeptHistory(completed) == LastN(completed, HistoryKept)

\* The dict to_dict writes for one event.
EventToDict(e) ==
    [eid |-> e.eid, etype |-> e.etype, title |-> e.title,
     description |-> e.description, biome |-> e.biome,
     difficulty |-> e.difficulty, reward |-> e.reward, timer |-> e.timer,
     chain_tag |-> e.chain_tag, resolved |-> e.resolved]

to_dict ==
    [kind |-> "dict", next_event_id |-> next_event_id,
     game_minutes |-> game_minutes, next_event_in |-> next_event_in,
     next_flavor_in |-> next_flavor_in,
     active_events |-> [k \in 1..Len(active_events) |->
                           EventToDict(active_events[k])],
     completed_events |-> KeptHistory(completed_events)]

\* The keys load_dict reads with e[...], which raises KeyError without them.
RequiredEventKeys ==
    {"eid", "etype", "title", "description", "biome", "difficulty", "reward",
     "timer"}

\* WorldEvent(eid=e["eid"], ..., chain_tag=e.get("chain_tag", ""),
\*            resolved=e.get("resolved", False))
EventFromDictUnresolved(e) ==
    [eid |-> e.eid, etype |-> e.etype, title |-> e.title,
     description |-> e.description, biome |-> e.biome,
     difficulty |-> e.difficulty, reward |-> e.reward, timer |-> e.timer,
     chain_tag |-> Get(e, "chain_tag", ""), resolved |-> FALSE]
EventFromDict(e) ==
    [eid |-> e.eid, etype |-> e.etype, title |-> e.title,
     description |-> e.description, biome |-> e.biome,
     difficulty |-> e.difficulty, reward |-> e.reward, timer |-> e.timer,
     chain_tag |-> Get(e, "chain_tag", ""),
     resolved |-> Get(e, "resolved", FALSE)]

\* EventSystem.load_dict on the engine st.  The events listed before the
\* first one that lacks a required key are appended before the KeyError.
events_load_dict(st, data) ==
    LET listed == Get(data, "active_events", <<>>)
        lacking == {k \in 1..Len(listed) :
                      ~(RequiredEventKeys \subseteq DOMAIN listed[k])}
        upto == IF lacking = {} THEN Len(listed) ELSE Least(lacking) - 1
    IN  [next_event_id |-> Get(data, "next_event_id", st.next_event_id),
         game_minutes |-> Get(data, "game_minutes", st.game_minutes),
         next_event_in |-> Get(data, "next_event_in", st.next_event_in),
         next_flavor_in |-> Get(data, "next_flavor_in", st.next_flavor_in),
         completed_events |-> Get(data, "completed_events", <<>>),
         active_events |-> [k \in 1..upto |-> EventFromDict(listed[k])],
         fault |-> lacking # {}]

\* events.to_dict() as save_game calls it (the F5 key).
Save ==
    /\ saved' = to_dict
    /\ last' = Call("to_dict", 0, 0, None, EngineState, 0)
    /\ UNCHANGED <<engine, game_minutes, next_event_in, next_flavor_in,
                   outside>>

HistoryInputs ==
    [FullInputs EXCEPT !.dts = {1}, !.nights = {TRUE}, !.triggers = {TRUE},
                       !.etypes = {"world"},
                       !.world_variants = {"meteor shower"},
                       !.jitters = {0},
                       !.autos = {TRUE},
                       !.max_id = MaxHistoryEventId,
                       !.max_minutes = MaxHistoryMinutes]

HistoryInit == InitOf(HistoryInputs)
HistoryUpdate == update(HistoryInputs) /\ UNCHANGED outside
HistoryComplete == CompleteEvent(HistoryInputs) /\ UNCHANGED outside
HistoryNext == HistoryUpdate \/ HistoryComplete \/ Save

SpecHistory == HistoryInit /\ [][HistoryNext]_vars

-----------------------------------------------------------------------------
(* The specification of the path planner: walls are standing on some of    *)
(* the tiles around (11, 0) of the world of seed 42, whose generated tiles *)
(* are not solid nearer than ten steps from there, and astar_path is       *)
(* called from (9, 0) or from (11, 0) to a tile near them with a small     *)
(* budget or with one that lets it walk around the walls.  The arguments   *)
(* of the call are drawn in the initial state.                             *)

\* The largest of the small budgets.
MaxNodes == 6

\* A budget that lets the planner walk around the walls.
MoreNodes == 32

AstarStarts == {<<9, 0>>, <<11, 0>>}
AstarGoals == {<<9 + dx, dy>> : dx \in 0..2, dy \in (-2)..2}
AstarWallTiles == {<<10, 0>>, <<11, 1>>, <<11, -1>>, <<12, 0>>}

Walls(tiles) == [k \in tiles |-> "wall"]

\* The state after construction, but for the overrides and the entities.
StartWith(blocks, ents, asked, file) ==
    /\ active_events = <<>>
    /\ completed_events = <<>>
    /\ next_event_id = 1
    /\ game_minutes = 0
    /\ next_event_in \in FullInputs.next_ins
    /\ next_flavor_in \in FullInputs.flavors
    /\ player = InitialPlayer
    /\ player_blocks = blocks
    /\ entities = ents
    /\ faction_relations = InitialRelations
    /\ saved = NoSave
    /\ last = asked
    /\ OutsideWith(DefaultSeed, file)

AstarInit ==
    \E tiles \in SUBSET AstarWallTiles, start \in AstarStarts,
       goal \in AstarGoals,
       max_nodes \in (0..MaxNodes) \cup {MoreNodes} :
        StartWith(Walls(tiles), InitialPopulation,
                  [op |-> "init", start |-> start, goal |-> goal,
                   max_nodes |-> max_nodes], NoSave)

AstarCall ==
    LET found == astar_path(last.start, last.goal, WorldState,
                            last.max_nodes) IN
    /\ SetWorld(found.world)
    /\ last' = [op |-> "astar_path", start |-> last.start,
                goal |-> last.goal, max_nodes |-> last.max_nodes,
                path |-> found.path, explored |-> found.explored]
    /\ UNCHANGED <<active_events, completed_events, next_event_id,
                   game_minutes, next_event_in, next_flavor_in, player,
                   entities, faction_relations, saved, saved_world,
                   combat, avatar, paused, crafting, frame>>

SpecAstar == AstarInit /\ [][AstarCall]_vars

-----------------------------------------------------------------------------
(* The specification of the world: the operations of World on the tiles    *)
(* (5, 5), (14, 0) and (19, 2), which are grass, dungeon and stone under   *)
(* seed 42 and dungeon, stone and water under seed 7, with the fog of war, *)
(* the clock, and to_dict and load_dict through the save file.  A save     *)
(* file of an earlier run, whose seed was 7, may be there from the start.  *)

\* The frames World.update is followed through.
MaxWorldTicks == 1

FrameDt == SECOND \div 20

ProbeTiles == {<<5, 5>>, <<14, 0>>, <<19, 2>>}
BlockTiles == {<<5, 5>>, <<19, 2>>}
OtherSeed == 7

EarlierSave ==
    world_to_dict([seed |-> OtherSeed, chunks |-> NoChunks,
                   player_blocks |-> NoBlocks, discovered_tiles |-> {},
                   sky |-> InitialSky], {})

WorldInit ==
    \E file \in {NoSave, EarlierSave} :
        StartWith(NoBlocks, InitialPopulation, [op |-> "init"], file)

WorldFrame ==
    <<active_events, completed_events, next_event_id, game_minutes,
      next_event_in, next_flavor_in, player, entities, faction_relations,
      saved, combat, avatar, paused, crafting, frame>>

GetTile ==
    \E t \in ProbeTiles :
        LET got == get_tile(WorldState, t[1], t[2]) IN
        /\ SetWorld(got.world)
        /\ last' = [op |-> "get_tile", tx |-> t[1], ty |-> t[2],
                    ret |-> got.ret]
        /\ UNCHANGED <<WorldFrame, saved_world>>

IsSolidTile ==
    \E t \in ProbeTiles :
        LET got == is_solid_tile(WorldState, t[1], t[2]) IN
        /\ SetWorld(got.world)
        /\ last' = [op |-> "is_solid_tile", tx |-> t[1], ty |-> t[2],
                    ret |-> got.ret]
        /\ UNCHANGED <<WorldFrame, saved_world>>

PlacePlayerBlock ==
    \E t \in BlockTiles :
        /\ player_blocks' = place_player_block(player_blocks, t[1], t[2],
                                               "wall")
        /\ last' = [op |-> "place_player_block", tx |-> t[1], ty |-> t[2],
                    before |-> player_blocks]
        /\ UNCHANGED <<WorldFrame, saved_world, seed, chunks,
                       discovered_tiles, sky>>

RemovePlayerBlock ==
    \E t \in BlockTiles :
        /\ player_blocks' = remove_player_block(player_blocks, t[1], t[2])
        /\ last' = [op |-> "remove_player_block", tx |-> t[1], ty |-> t[2],
                    undoes |-> /\ last.op = "place_player_block"
                               /\ <<last.tx, last.ty>> = t
                               /\ t \notin DOMAIN last.before]
        /\ UNCHANGED <<WorldFrame, saved_world, seed, chunks,
                       discovered_tiles, sky>>

RevealAround ==
    /\ SetWorld(reveal_around(WorldState, avatar.x, avatar.y, RevealRadius))
    /\ last' = [op |-> "reveal_around"]
    /\ UNCHANGED <<WorldFrame, saved_world>>

WorldUpdate ==
    /\ sky.time_of_day
          < InitialSky.time_of_day + MaxWorldTicks * FrameDt * 14
    /\ sky.weather_timer
          > InitialSky.weather_timer - MaxWorldTicks * FrameDt
    /\ \E timer_draw \in {35 * SECOND}, weather_draw \in Weathers :
          SetWorld(world_update(WorldState, FrameDt, timer_draw,
                                weather_draw))
    /\ last' = [op |-> "update"]
    /\ UNCHANGED <<WorldFrame, saved_world>>

WorldSave ==
    /\ \E kept \in KeptDiscovered(discovered_tiles) :
          saved_world' = world_to_dict(WorldState, kept)
    /\ last' = [op |-> "to_dict"]
    /\ UNCHANGED <<WorldFrame, seed, chunks, player_blocks,
                   discovered_tiles, sky>>

WorldLoad ==
    /\ saved_world # NoSave
    /\ SetWorld(world_load_dict(WorldState, saved_world))
    /\ last' = [op |-> "load_dict"]
    /\ UNCHANGED <<WorldFrame, saved_world>>

WorldNext ==
    \/ GetTile
    \/ IsSolidTile
    \/ PlacePlayerBlock
    \/ RemovePlayerBlock
    \/ RevealAround
    \/ WorldUpdate
    \/ WorldSave
    \/ WorldLoad

SpecWorld == WorldInit /\ [][WorldNext]_vars

-----------------------------------------------------------------------------
(* The specification of the fights: the main loop, one step per call it    *)
(* makes, over a part of the map in the middle of a game.  Everybody       *)
(* stands on the row of tile centres above the player: a wounded slime, a  *)
(* wounded dragon and a wounded spirit within reach of the sword, a goblin *)
(* further off, a villager at talking distance; a raid is going on.        *)

\* The frames the systems run in.
MaxFrames == 1

\* The input events handled in one frame.
MaxEventsPerFrame == 1

Row == 176 * PX

FightPopulation ==
    << [BaseEntity(260 * PX, Row, "slime", "monsters", 26, 70, 11)
           EXCEPT !.hp = 5],
       [BaseEntity(244 * PX, Row, "dragon", "boss", 360, 95, 20)
           EXCEPT !.hp = 18],
       BaseEntity(420 * PX, Row, "goblin", "monsters", 38, 88, 12),
       BaseEntity(140 * PX, Row, "villager", "villagers", 70, 68, 12),
       [BaseEntity(236 * PX, Row, "spirit", "allies", 95, 125, 10)
           EXCEPT !.hp = 10, !.state = "assist"],
       BaseEntity(560 * PX, Row, "wolf", "monsters", 32, 105, 10),
       [BaseEntity(208 * PX, -70 * PX, "slime", "monsters", 26, 70, 11)
           EXCEPT !.ai_timer = SECOND],
       BaseEntity(201 * PX, 180 * PX, "demon_lord", "boss", 460, 75, 22) >>

\* The wall of a player who has crafted a plank from two wood and placed it
\* on the tile the villager stands on: can_place looks at the tile and at
\* player_blocks only.
VillagerWall == [t \in {<<4, 5>>} |-> "wall"]

\* The player after craft_selected (gain_exp(8)) and place_block
\* (gain_exp(3)).
Builder == [InitialPlayer EXCEPT !.slots[1].count = 8, !.exp = 11]

FightInputs ==
    [FullInputs EXCEPT !.dts = {1}, !.nights = {FALSE}, !.triggers = {FALSE},
                       !.etypes = {"raid"}, !.jitters = {0}, !.timers = {12},
                       !.next_ins = {12}, !.chains = {FALSE},
                       !.spawns = {<<400 * PX, Row, "goblin">>},
                       !.any_id = FALSE,
                       !.max_id = 1,
                       !.max_minutes = MaxFrames]

\* The draws of one call of EntityManager.update.
EntityDraws ==
    [timer : {(6 * SECOND) \div 10}, wander : {<<0, 1>>},
     talk : BOOLEAN, drop : {"wood"},
     spawn : {NoSpawn, <<"goblin", 320 * PX, 0>>}]

FightInit ==
    /\ active_events \in {<<e>> : e \in Templates(FightInputs, 1, "plains",
                                                  FALSE, 1)}
    /\ completed_events = <<>>
    /\ next_event_id = 2
    /\ game_minutes = 0
    /\ next_event_in \in FightInputs.next_ins
    /\ next_flavor_in \in FullInputs.flavors
    /\ \E built \in BOOLEAN :
          /\ player = [IF built THEN Builder ELSE InitialPlayer
                          EXCEPT !.mana = 45]
          /\ player_blocks = IF built THEN VillagerWall ELSE NoBlocks
    /\ entities = FightPopulation
    /\ faction_relations = InitialRelations
    /\ saved = NoSave
    /\ last = [op |-> "init"]
    /\ OutsideInit

\* What the calls of one frame read and write.
FrameState ==
    [entities |-> entities, player |-> player, avatar |-> avatar,
     world |-> WorldState, combat |-> combat, logs |-> frame.logs,
     calls |-> frame.calls, steps |-> <<>>, aim |-> NoAim, hit |-> 0]

SetSystems(s) ==
    /\ entities' = s.entities
    /\ player' = s.player
    /\ avatar' = s.avatar
    /\ SetWorld(s.world)
    /\ combat' = s.combat

SetFrame(s, pc, handled) ==
    /\ SetSystems(s)
    /\ frame' = [frame EXCEPT !.pc = pc, !.handled = handled,
                              !.logs = s.logs, !.calls = s.calls]

EventSide ==
    <<active_events, completed_events, next_event_id, game_minutes,
      next_event_in, next_flavor_in, faction_relations, saved, saved_world>>

Handling == frame.pc = "events" /\ frame.handled < MaxEventsPerFrame

\* K_ESCAPE
KeyEscape ==
    /\ Handling
    /\ paused' = ~paused
    /\ UNCHANGED crafting
    /\ frame' = [frame EXCEPT !.handled = @ + 1]
    /\ last' = [op |-> "K_ESCAPE"]
    /\ UNCHANGED <<EventSide, entities, player, player_blocks, avatar, combat,
                   seed, chunks, discovered_tiles, sky>>

\* K_f: player.cast_time_slow()
KeyF ==
    /\ Handling
    /\ IF player.mana >= 20
       THEN /\ player' = [player EXCEPT !.mana = @ - 20]
            /\ avatar' = [avatar EXCEPT !.time_slow = (35 * SECOND) \div 10]
       ELSE UNCHANGED <<player, avatar>>
    /\ frame' = [frame EXCEPT !.handled = @ + 1]
    /\ last' = [op |-> "K_f"]
    /\ UNCHANGED <<EventSide, entities, player_blocks, combat, paused,
                   crafting,
                   seed, chunks, discovered_tiles, sky>>

\* K_r: an ally is summoned next to the player for 25 mana.
KeyR ==
    /\ Handling
    /\ IF player.mana >= 25
       THEN /\ player' = [player EXCEPT !.mana = @ - 25]
            /\ \E summon_type \in {"spirit"}, at \in {<<35 * PX, -4 * PX>>} :
                  entities' = summon_ally(entities, avatar.x + at[1],
                                          avatar.y + at[2], summon_type)
       ELSE UNCHANGED <<player, entities>>
    /\ frame' = [frame EXCEPT !.handled = @ + 1]
    /\ last' = [op |-> "K_r"]
    /\ UNCHANGED <<EventSide, player_blocks, avatar, combat, paused, crafting,
                   seed, chunks, discovered_tiles, sky>>

\* K_g: complete_event on active_events[0], if there is one.
KeyG ==
    /\ Handling
    /\ CompleteEvent(FightInputs)
    /\ frame' = [frame EXCEPT !.handled = @ + 1]
    /\ UNCHANGED <<saved_world, avatar, combat, paused, crafting, seed, chunks,
                   discovered_tiles, sky>>

\* Left mouse button, neither paused nor in build mode: melee_attack.
MouseLeft ==
    /\ Handling
    /\ ~paused
    /\ SetFrame(melee_attack(FrameState), "events", frame.handled + 1)
    /\ last' = [op |-> "melee_attack"]
    /\ UNCHANGED <<EventSide, paused, crafting>>

\* Right mouse button, neither paused nor in build mode: cast_projectile.
MouseRight ==
    /\ Handling
    /\ ~paused
    /\ SetFrame(cast_projectile(FrameState), "events", frame.handled + 1)
    /\ last' = [op |-> "cast_projectile"]
    /\ UNCHANGED <<EventSide, paused, crafting>>

NoLogs == <<>>

\* The event queue is empty: a paused frame ends here, another goes on to
\* the systems.
EndOfEvents ==
    /\ frame.pc = "events"
    /\ IF paused
       THEN \E tick \in ClockTicks : frame' = NewFrame(tick, Ended)
       ELSE /\ game_minutes < MaxFrames
            /\ frame' = [frame EXCEPT !.pc = "systems"]
    /\ last' = [op |-> "events handled"]
    /\ UNCHANGED <<EventSide, entities, player, player_blocks, avatar, combat,
                   paused, crafting, seed, chunks, discovered_tiles, sky>>

\* handle_inputs with no key held, ensure_chunks_around, reveal_around,
\* world.update, player.update and combat.update.
TickWorld ==
    /\ frame.pc = "systems"
    /\ \E timer_draw \in {35 * SECOND}, weather_draw \in {"clear"} :
          SetWorld(world_update(
                     reveal_around(
                        ensure_chunks_around(WorldState, avatar.x, avatar.y,
                                             2),
                        avatar.x, avatar.y, RevealRadius),
                     frame.dt, timer_draw, weather_draw))
    /\ avatar' = [avatar EXCEPT !.vx = 0, !.vy = 0,
                                !.time_slow = IF @ > 0 THEN @ - frame.dt
                                              ELSE @]
    /\ player' = [player EXCEPT
                    !.mana = Min(player.mana_max,
                                 @ + (6 * frame.dt) \div SECOND)]
    /\ combat' = combat_update(combat, frame.dt)
    /\ frame' = [frame EXCEPT
                   !.pc = "entities",
                   !.calls = Append(@, <<"world.update", frame.dt>>)]
    /\ last' = [op |-> "combat.update"]
    /\ UNCHANGED <<EventSide, entities, paused, crafting>>

IsLoot(log) == log.type = "loot"

\* logs = entities.update(dt, player, events_system)
EntitiesUpdate ==
    /\ frame.pc = "entities"
    /\ \E d \in EntityDraws :
       \E s \in {entities_update(FrameState, frame.dt, d)} :
          /\ SetFrame([s EXCEPT
                         !.calls = Append(@, <<"entities.update",
                                               frame.dt>>)],
                      "projectiles", frame.handled)
          /\ last' = [op |-> "entities.update", before |-> entities,
                      looped |-> s.looped, steps |-> s.steps,
                      hp |-> player.hp,
                      loot |-> SelectSeq(s.logs, IsLoot),
                      spawned |-> d.spawn # NoSpawn]
    /\ UNCHANGED <<EventSide, paused, crafting>>

\* logs.extend(combat.resolve_projectiles(...))
ResolveProjectiles ==
    /\ frame.pc = "projectiles"
    /\ SetFrame(resolve_projectiles(FrameState), "events_update",
                frame.handled)
    /\ last' = [op |-> "resolve_projectiles"]
    /\ UNCHANGED <<EventSide, paused, crafting>>

\* logs.extend(events_system.update(...))
EventsUpdate ==
    /\ frame.pc = "events_update"
    /\ update(FightInputs)
    /\ frame' = [frame EXCEPT
                   !.pc = "settle",
                   !.calls = Append(@, <<"events.update", frame.dt>>),
                   !.logs = @ \o [k \in 1..Len(last'.ret) |->
                                     [type |-> last'.ret[k][1],
                                      text |-> last'.ret[k]]]]
    /\ UNCHANGED <<saved_world, avatar, combat, paused, crafting, seed, chunks,
                   discovered_tiles, sky>>

Houses(blocks) == Cardinality({k \in DOMAIN blocks : blocks[k] = "wall"})

Villagers(ents) ==
    Cardinality({k \in 1..Len(ents) : ents[k].faction = "villagers"})

\* BuildingSystem.try_spawn_settler; the draw is whether random() < 0.0025
\* and the place, at 180 pixels from the player.
try_spawn_settler(s, blocks, settles, at) ==
    IF Houses(blocks) < 25 \/ Villagers(s.entities) >= 12 \/ ~settles THEN s
    ELSE [s EXCEPT
            !.entities = Append(@, BaseEntity(s.avatar.x + at[1],
                                              s.avatar.y + at[2], "villager",
                                              "villagers", 70, 68, 12)),
            !.player.reputation = @ + 2,
            !.logs = Append(@, [type |-> "settle"])]

\* for log in logs: a loot log gives the item and the experience.
RECURSIVE Rewarded(_, _)
Rewarded(p, logs) ==
    IF logs = <<>> THEN p
    ELSE IF logs[1].type = "loot"
    THEN Rewarded(gain_exp([p EXCEPT !.slots = add_item(@, logs[1].item, 1)],
                           logs[1].exp),
                  Tail(logs))
    ELSE Rewarded(p, Tail(logs))

\* try_spawn_settler, the loop over the logs and the player death fallback.
SettleAndReward ==
    /\ frame.pc = "settle"
    /\ \E settles \in BOOLEAN, at \in {<<180 * PX, 0>>}, tick \in ClockTicks :
          LET s0 == try_spawn_settler(FrameState, player_blocks, settles, at)
              s1 == [s0 EXCEPT !.player = Rewarded(@, s0.logs)]
              s2 == IF s1.player.hp <= 0
                    THEN [s1 EXCEPT !.player.hp = s1.player.hp_max,
                                    !.avatar.x = 180 * PX,
                                    !.avatar.y = 180 * PX]
                    ELSE s1
          IN  SetSystems(s2) /\ frame' = NewFrame(tick, Ended)
    /\ last' = [op |-> "frame done"]
    /\ UNCHANGED <<EventSide, paused, crafting>>

FightNext ==
    \/ KeyEscape
    \/ KeyF
    \/ KeyR
    \/ KeyG
    \/ MouseLeft
    \/ MouseRight
    \/ EndOfEvents
    \/ TickWorld
    \/ EntitiesUpdate
    \/ ResolveProjectiles
    \/ EventsUpdate
    \/ SettleAndReward

SpecFight == FightInit /\ [][FightNext]_vars

-----------------------------------------------------------------------------
(* The specification of the assist branch: one call of                     *)
(* EntityManager.update on a list that begins with a spirit at (236, 180), *)
(* in line with the player at (200, 180), followed by any of the entities  *)
(* of Company, which stand on that line.  The entities of Company are      *)
(* between two re-evaluations of their state.                              *)

Line == 180 * PX

Spirit ==
    [BaseEntity(236 * PX, Line, "spirit", "allies", 95, 125, 10)
        EXCEPT !.state = "assist"]

\* x, etype, faction, hp, speed, radius: a slime 24 px from the spirit, a
\* goblin 100 px away, a wolf 270 px away and a slime exactly 260 px away;
\* a dragon 8 px and a demon lord 290 px away; a dead goblin 4 px, a
\* villager 6 px and a knight 10 px away.
Company ==
    <<<<260, "slime", "monsters", 5, 70, 11>>,
      <<136, "goblin", "monsters", 38, 88, 12>>,
      <<506, "wolf", "monsters", 32, 105, 10>>,
      <<-24, "slime", "monsters", 26, 70, 11>>,
      <<244, "dragon", "boss", 360, 95, 20>>,
      <<-54, "demon_lord", "boss", 460, 75, 22>>,
      <<240, "goblin", "monsters", 0, 88, 12>>,
      <<230, "villager", "villagers", 70, 68, 12>>,
      <<246, "knight", "allies", 170, 95, 13>>>>

Member(k) ==
    [BaseEntity(Company[k][1] * PX, Line, Company[k][2], Company[k][3],
                Company[k][4], Company[k][5], Company[k][6])
        EXCEPT !.ai_timer = SECOND,
               !.state = IF Company[k][3] = "allies" THEN "assist"
                         ELSE "wander"]

RECURSIVE Members(_, _)
Members(k, chosen) ==
    IF k > Len(Company) THEN <<>>
    ELSE (IF k \in chosen THEN <<Member(k)>> ELSE <<>>)
         \o Members(k + 1, chosen)

\* The sizes of the crowds of villagers that stand 300 px from the player:
\* with the spirit the list holds 55, 56 and 57 entities, and the first of
\* the villagers of the two larger ones is dead.
Crowds == {MaxPopulation - 1, MaxPopulation, MaxPopulation + 1}

Crowd(n) ==
    [k \in 1..n |->
        [BaseEntity(-100 * PX, Line, "villager", "villagers", 70, 68, 12)
            EXCEPT !.ai_timer = SECOND,
                   !.hp = IF n >= MaxPopulation /\ k = 1 THEN 0 ELSE @]]

AssistInit ==
    /\ active_events = <<>>
    /\ completed_events = <<>>
    /\ next_event_id = 1
    /\ game_minutes = 0
    /\ next_event_in \in FullInputs.next_ins
    /\ next_flavor_in \in FullInputs.flavors
    /\ player = InitialPlayer
    /\ player_blocks = NoBlocks
    /\ \/ \E chosen \in SUBSET (1..Len(Company)) :
             entities = <<Spirit>> \o Members(1, chosen)
       \/ \E n \in Crowds : entities = <<Spirit>> \o Crowd(n)
    /\ faction_relations = InitialRelations
    /\ saved = NoSave
    /\ saved_world = NoSave
    /\ last = [op |-> "init"]
    /\ seed = DefaultSeed
    /\ chunks = NoChunks
    /\ discovered_tiles = {}
    /\ sky = InitialSky
    /\ combat = InitialCombat
    /\ avatar = InitialAvatar
    /\ paused = FALSE
    /\ crafting = NoDrag
    /\ frame = [NewFrame(SECOND \div 20, NoFrame) EXCEPT
                  !.pc = "entities",
                  !.calls = <<<<"world.update", SECOND \div 20>>>>]

SpecAssist == AssistInit /\ [][EntitiesUpdate]_vars

-----------------------------------------------------------------------------
(* CraftingSystem.handle_event (src/crafting.py): the drag and drop of the *)
(* inventory grid.  inventory[i] is slots[HotbarSize + i + 1]; an empty    *)
(* dict is EmptySlot.                                                      *)

PanelX == 20
PanelY == 100
GridColumns == 10
SlotPitch == 48
SlotSide == 42

\* _slot_rects(panel_x, panel_y)[i] as <<left, top, width, height>>
SlotRect(i) ==
    <<PanelX + 20 + (i % GridColumns) * SlotPitch,
      PanelY + 85 + (i \div GridColumns) * SlotPitch, SlotSide, SlotSide>>

\* pygame.Rect.collidepoint: the right and the bottom edge are outside.
CollidePoint(rect, pos) ==
    /\ rect[1] <= pos[1] /\ pos[1] < rect[1] + rect[3]
    /\ rect[2] <= pos[2] /\ pos[2] < rect[2] + rect[4]

\* The indices of the rects that hold pos: none or one, as the rects do not
\* overlap.
RectsAt(pos) ==
    {i \in 0..(InventorySize - 1) : CollidePoint(SlotRect(i), pos)}

Inventory(slots, i) == slots[HotbarSize + i + 1]

\* The first empty slot of the inventory as an index of slots, or 0.
FirstEmptyOfInventory(slots) ==
    IF \E k \in (HotbarSize + 1)..Len(slots) : slots[k] = EmptySlot
    THEN CHOOSE k \in (HotbarSize + 1)..Len(slots) :
            slots[k] = EmptySlot
            /\ \A j \in (HotbarSize + 1)..(k - 1) : slots[j] # EmptySlot
    ELSE 0

\* The branch for MOUSEBUTTONDOWN with button 1: the slot under the pointer,
\* if it holds something, is copied to drag_item and cleared.
ButtonDown(slots, cr, pos) ==
    IF \E i \in RectsAt(pos) : Inventory(slots, i) # EmptySlot
    THEN LET i == CHOOSE h \in RectsAt(pos) : TRUE IN
         [slots |-> [slots EXCEPT ![HotbarSize + i + 1] = EmptySlot],
          crafting |-> [drag_from |-> i, drag_item |-> Inventory(slots, i)],
          ret |-> TRUE]
    ELSE [slots |-> slots, crafting |-> cr, ret |-> FALSE]

\* The drop on inventory[i]: into an empty slot, onto a stack of the same
\* id, or in exchange for the item of another id, which becomes drag_item.
DropOn(slots, cr, i) ==
    LET target == Inventory(slots, i) IN
    IF target = EmptySlot
    THEN [slots |-> [slots EXCEPT ![HotbarSize + i + 1] = cr.drag_item],
          crafting |-> cr]
    ELSE IF target.id = cr.drag_item.id
    THEN [slots |-> [slots EXCEPT ![HotbarSize + i + 1].count =
                         @ + cr.drag_item.count],
          crafting |-> cr]
    ELSE [slots |-> [slots EXCEPT ![HotbarSize + i + 1] = cr.drag_item],
          crafting |-> [cr EXCEPT !.drag_item = target]]

\* if not placed: back to drag_from if that slot is empty, else to the first
\* empty slot of the inventory, if there is one.
DropBack(slots, cr) ==
    IF cr.drag_from # NoSlot /\ Inventory(slots, cr.drag_from) = EmptySlot
    THEN [slots |-> [slots EXCEPT ![HotbarSize + cr.drag_from + 1] =
                         cr.drag_item],
          crafting |-> cr]
    ELSE LET free == FirstEmptyOfInventory(slots) IN
         [slots |-> IF free = 0 THEN slots
                    ELSE [slots EXCEPT ![free] = cr.drag_item],
          crafting |-> cr]

\* The branch for MOUSEBUTTONUP with button 1 and an item being dragged.
ButtonUp(slots, cr, pos) ==
    LET dropped == IF RectsAt(pos) # {}
                   THEN DropOn(slots, cr, CHOOSE h \in RectsAt(pos) : TRUE)
                   ELSE DropBack(slots, cr)
    IN  \* self.drag_from = None; self.drag_item = None
        [slots |-> dropped.slots, crafting |-> NoDrag, ret |-> TRUE]

handle_event(event, slots, cr) ==
    LET down == IF event.type = "MOUSEBUTTONDOWN" /\ event.button = 1
                THEN ButtonDown(slots, cr, event.pos)
                ELSE [slots |-> slots, crafting |-> cr, ret |-> FALSE]
    IN  IF down.ret THEN down
        ELSE IF /\ event.type = "MOUSEBUTTONUP" /\ event.button = 1
                /\ cr.drag_item # None
        THEN ButtonUp(slots, cr, event.pos)
        ELSE [slots |-> slots, crafting |-> cr, ret |-> FALSE]

-----------------------------------------------------------------------------
(* The specification of the inventory grid: the inventory is the one of a  *)
(* new game, with the cheat fruit in its first slot, or one that load_game *)
(* took from a save file, with stacks of gold in the second and the third  *)
(* slot as well; the mouse buttons are pressed and released over the first *)
(* three slots, over the gap between the first two and outside the grid.   *)

\* The player's inventory after Player.load_dict took it from a file.
LoadedSlots ==
    [InitialSlots EXCEPT ![HotbarSize + 2] = [id |-> "gold", count |-> 2],
                         ![HotbarSize + 3] = [id |-> "gold", count |-> 1]]

PointerAt ==
    {<<61, 206>>, <<109, 206>>, <<157, 206>>, <<84, 206>>, <<600, 500>>}

MouseEvents ==
    [type : {"MOUSEBUTTONDOWN", "MOUSEBUTTONUP"}, button : {1, 3},
     pos : PointerAt]

DragInit ==
    /\ active_events = <<>>
    /\ completed_events = <<>>
    /\ next_event_id = 1
    /\ game_minutes = 0
    /\ next_event_in \in FullInputs.next_ins
    /\ next_flavor_in \in FullInputs.flavors
    /\ player \in {[InitialPlayer EXCEPT !.slots = slots] :
                      slots \in {InitialSlots, LoadedSlots}}
    /\ player_blocks = NoBlocks
    /\ entities = InitialPopulation
    /\ faction_relations = InitialRelations
    /\ saved = NoSave
    /\ last = [op |-> "init"]
    /\ OutsideInit

\* if ui.show_inventory: crafting.handle_event(event, player, 20, 100)
HandleEvent ==
    \E event \in MouseEvents :
        \E done \in {handle_event(event, player.slots, crafting)} :
            /\ player' = [player EXCEPT !.slots = done.slots]
            /\ crafting' = done.crafting
            /\ last' = [op |-> "handle_event", event |-> event,
                        ret |-> done.ret, slots |-> player.slots,
                        crafting |-> crafting]
            /\ UNCHANGED <<active_events, completed_events, next_event_id,
                           game_minutes, next_event_in, next_flavor_in,
                           player_blocks, entities, faction_relations, saved,
                           seed, chunks, discovered_tiles, sky, saved_world,
                           combat, avatar, paused, frame>>

SpecDrag == DragInit /\ [][HandleEvent]_vars

-----------------------------------------------------------------------------
(* The specification of the save file: save_game (F5) writes the dicts of  *)
(* World.to_dict and EventSystem.to_dict, load_game (F9) hands them to     *)
(* World.load_dict and EventSystem.load_dict, and a new run of the program *)
(* finds the file of the run before.  The runs begin at moments of a game  *)
(* with walls at negative and at three-digit coordinates, with discovered  *)
(* sets up to one tile above what to_dict lists, with listed events and a  *)
(* history of up to 51 completions, and with no file or with one that      *)
(* something else than save_game wrote.                                    *)

PersistBlockTiles == {<<-12, 3>>, <<105, -1>>}

\* What reveal_around has revealed at the start position.
Near == RevealedAround(InitialAvatar.x, InitialAvatar.y, RevealRadius)

\* What reveal_around has revealed once the player has walked over the
\* tiles 6..368 x 5..7: a set of DiscoveredKept + 1 coordinates.
Walked ==
    {<<x, y>> : x \in (6 - RevealRadius)..(368 + RevealRadius),
                y \in (5 - RevealRadius)..(7 + RevealRadius)}

\* The order in which list(discovered_tiles) lists the set is a draw: the
\* coordinates it lists after the first DiscoveredKept are the start tile,
\* or the corner of the set.
KeptDraws(tiles) ==
    IF Cardinality(tiles) <= DiscoveredKept THEN {tiles}
    ELSE {tiles \ {<<6, 5>>}, tiles \ {<<6 - RevealRadius, 5 - RevealRadius>>}}

PersistInputs ==
    [FullInputs EXCEPT !.etypes = {"isekai"}, !.jitters = {0}]

\* The lists of active events of the moments: none, one that may be
\* resolved already, and a resolved one followed by another.
PersistActive ==
    {<<>>}
    \cup {<<[e EXCEPT !.resolved = r]>> :
             e \in Templates(PersistInputs, 1, "plains", FALSE, 1),
             r \in BOOLEAN}
    \cup {<<[e EXCEPT !.resolved = TRUE], f>> :
             e \in Templates(PersistInputs, 1, "plains", FALSE, 1),
             f \in Templates(PersistInputs, 2, "plains", FALSE, 1)}

\* The histories of the moments: empty, two titles, and HistoryKept + 1
\* titles, the oldest of which differs from the others.
PersistHistories ==
    {<<>>, <<VillageTitle, RivalTitle>>,
     <<RivalTitle>> \o [k \in 1..HistoryKept |-> VillageTitle]}

EmptyDict == [kind |-> "dict"]

\* A listed event as a file may hold it: a dict of the eight required
\* keys only.
BareEvent ==
    [k \in RequiredEventKeys |->
        EventToDict(WorldEvent(7, "quest", VillageTitle, "plains", 2,
                               Reward(45, 4, <<<<"gold", 6>>>>), 90,
                               "questline"))[k]]

\* The files of the moments, as <<world, events>>: none; one without any
\* key; one whose event has no chain_tag and no resolved; one whose event
\* has no timer; one with a discovered entry that is no coordinate; one
\* with a block key of three parts besides a good one.
PersistFiles ==
    { <<NoSave, NoSave>>,
      <<EmptyDict, EmptyDict>>,
      <<EmptyDict, [kind |-> "dict", active_events |-> <<BareEvent>>]>>,
      <<EmptyDict,
        [kind |-> "dict", next_event_id |-> 9,
         active_events |->
            <<BareEvent,
              [k \in RequiredEventKeys \ {"timer"} |-> BareEvent[k]]>>]>>,
      <<[kind |-> "dict", seed |-> OtherSeed,
         discovered |-> {<<"a", "b", "c">>, CoordKey(4, -5)}], EmptyDict>>,
      <<[kind |-> "dict",
         player_blocks |-> (CoordKey(4, 5) :> "wall")
                           @@ (<<"1", ",", "2", ",", "3">> :> "wall")],
        EmptyDict>> }

NoSource == [kind |-> "none"]

\* What the run holds of what the model follows of a save.
Snapshot ==
    [kind |-> "game", player_blocks |-> player_blocks,
     discovered_tiles |-> discovered_tiles,
     next_event_id |-> next_event_id, game_minutes |-> game_minutes,
     next_event_in |-> next_event_in, next_flavor_in |-> next_flavor_in,
     active_events |-> active_events,
     completed_events |-> completed_events]

PersistFrame ==
    <<player, entities, faction_relations, combat, avatar, paused, crafting,
      frame>>

PersistInit ==
    /\ \E blocks \in SUBSET PersistBlockTiles, tiles \in {{}, Near, Walked} :
          /\ tiles = Walked => blocks = {}
          /\ player_blocks = [k \in blocks |-> "wall"]
          /\ discovered_tiles = tiles
    /\ active_events \in PersistActive
    /\ completed_events \in PersistHistories
    /\ discovered_tiles = Walked => active_events = <<>>
    /\ discovered_tiles = Walked => completed_events = <<>>
    /\ next_event_id = Len(active_events) + Len(completed_events) + 1
    /\ game_minutes = 7
    /\ next_event_in \in FullInputs.next_ins
    /\ next_flavor_in \in FullInputs.flavors
    /\ \E file \in PersistFiles :
          /\ saved_world = file[1]
          /\ saved = file[2]
          /\ file[1] # NoSave => discovered_tiles # Walked
    /\ player = InitialPlayer
    /\ entities = InitialPopulation
    /\ faction_relations = InitialRelations
    /\ last = [op |-> "init", fault |-> "none", source |-> NoSource,
               onto |-> "none"]
    /\ seed = DefaultSeed
    /\ chunks = NoChunks
    /\ sky = InitialSky
    /\ combat = InitialCombat
    /\ avatar = InitialAvatar
    /\ paused = FALSE
    /\ crafting = NoDrag
    /\ frame \in {NewFrame(tick, NoFrame) : tick \in ClockTicks}

\* save_game: the two to_dict calls.  last.source is what the game held.
SaveGame ==
    /\ \E kept \in KeptDraws(discovered_tiles) :
          /\ kept \in KeptDiscovered(discovered_tiles)
          /\ saved_world' = world_to_dict(WorldState, kept)
    /\ saved' = to_dict
    /\ last' = [op |-> "save_game", fault |-> "none", source |-> Snapshot,
                onto |-> "none"]
    /\ UNCHANGED <<active_events, completed_events, next_event_id,
                   game_minutes, next_event_in, next_flavor_in, player_blocks,
                   seed, chunks, discovered_tiles, sky, PersistFrame>>

\* A new run of the program: World, EventSystem and the rest are built
\* again, and the save file is the one the run before left.
NewGame ==
    /\ \E s \in {DefaultSeed, OtherSeed} : seed' = s
    /\ chunks' = NoChunks
    /\ player_blocks' = NoBlocks
    /\ discovered_tiles' = {}
    /\ sky' = InitialSky
    /\ active_events' = <<>>
    /\ completed_events' = <<>>
    /\ next_event_id' = 1
    /\ game_minutes' = 0
    /\ next_event_in' \in FullInputs.next_ins
    /\ next_flavor_in' \in FullInputs.flavors
    /\ last' = [last EXCEPT !.op = "new_game", !.fault = "none"]
    /\ UNCHANGED <<saved, saved_world, PersistFrame>>

EngineNow ==
    [next_event_id |-> next_event_id, game_minutes |-> game_minutes,
     next_event_in |-> next_event_in, next_flavor_in |-> next_flavor_in,
     completed_events |-> completed_events, active_events |-> active_events]

\* load_game: World.load_dict and then, unless that raised,
\* EventSystem.load_dict.  last.fault is the exception that ended the call
\* and last.onto the step before it: the file is loaded onto the game
\* that saved it, onto a new game or onto a loaded one.
LoadGame ==
    /\ saved_world # NoSave
    /\ \E out \in world_load_outcomes(WorldState, saved_world) :
       \E ev \in {IF out.fault THEN EngineNow @@ [fault |-> FALSE]
                  ELSE events_load_dict(EngineNow, saved)} :
          /\ SetWorld(out.world)
          /\ next_event_id' = ev.next_event_id
          /\ game_minutes' = ev.game_minutes
          /\ next_event_in' = ev.next_event_in
          /\ next_flavor_in' = ev.next_flavor_in
          /\ completed_events' = ev.completed_events
          /\ active_events' = ev.active_events
          /\ last' = [last EXCEPT
                        !.op = "load_game",
                        !.onto = last.op,
                        !.fault = IF out.fault THEN "ValueError"
                                  ELSE IF ev.fault THEN "KeyError"
                                  ELSE "none"]
    /\ UNCHANGED <<saved, saved_world, PersistFrame>>

PersistNext == SaveGame \/ NewGame \/ LoadGame

SpecPersist == PersistInit /\ [][PersistNext]_vars

-----------------------------------------------------------------------------
(* Properties.                                                             *)

IdsOf(events) == {events[i].eid : i \in 1..Len(events)}
UnresolvedOf(events) == {i \in 1..Len(events) : ~events[i].resolved}
ListedResolved(events, id) ==
    \E i \in 1..Len(events) : events[i].eid = id /\ events[i].resolved
ListedUnresolved(events, id) ==
    \E i \in 1..Len(events) : events[i].eid = id /\ ~events[i].resolved
Calls(l) == {l.calls[k] : k \in 1..Len(l.calls)}

\* C1: the first complete_event on the id of a listed, unresolved event
\* resolves it and records its title; a complete_event on the id of an
\* event that is listed as resolved (a second call on that id) returns None
\* and changes neither the player, the world, the entities, the relations,
\* active_events, completed_events nor next_event_id.
C1_CompleteTwiceGrantsOnce ==
    [][last'.op = "complete_event" =>
        /\ (ListedUnresolved(active_events, last'.event_id) =>
                /\ last'.ret # None
                /\ ListedResolved(active_events', last'.event_id)
                /\ Len(completed_events') = Len(completed_events) + 1)
        /\ ((ListedResolved(active_events, last'.event_id)
             /\ ~ListedUnresolved(active_events, last'.event_id)) =>
                /\ last'.ret = None
                /\ UNCHANGED engine)]_vars

\* C1 witness: a call on an id whose event an earlier call resolved, and
\* which is still listed, has returned None.
C1_Witness ==
    /\ last.op = "complete_event"
    /\ last.ret = None
    /\ \E i \in 1..Len(active_events) :
        /\ active_events[i].eid = last.event_id
        /\ active_events[i].resolved
        /\ active_events[i].reward.exp > 0
        /\ \E k \in 1..Len(completed_events) :
                completed_events[k] = active_events[i].title

\* C9: complete_event with an id that no event of active_events carries
\* returns None and changes nothing.
C9_UnknownIdIsNoOp ==
    [][(last'.op = "complete_event"
        /\ last'.event_id \notin IdsOf(active_events)) =>
            /\ last'.ret = None
            /\ UNCHANGED engine]_vars

\* C9 witness: such a call returned None while an unresolved event, which a
\* wrong match could have completed, was listed.
C9_Witness ==
    /\ last.op = "complete_event"
    /\ last.event_id \notin IdsOf(active_events)
    /\ last.ret = None
    /\ UnresolvedOf(active_events) # {}


\* A completion of an unresolved event tagged defense whose chain draw
\* succeeded.
DefenseChained(c) ==
    c.matched /\ ~c.parent.resolved /\ c.parent.chain_tag = "defense"
    /\ c.chain

\* C2 as claimed: when complete_event returns from such a completion, one
\* event tagged questline has been appended and the original event, marked
\* resolved, is no longer a member of active_events.
C2_OriginalLeavesListOnReturn ==
    (last.op = "complete_event" /\ DefenseChained(last.calls[1])) =>
        /\ Len(last.calls[1].follows) = 1
        /\ last.calls[1].follows[1].chain_tag = "questline"
        /\ last.event_id \notin IdsOf(active_events)

\* C2 amended: on return exactly one event has been appended to
\* active_events, it carries the tag questline, and the original event is
\* marked resolved and still stored in active_events at its place; it is the
\* next update that drops it, every event listed after an update being
\* unresolved.  A chain made inside update appends one questline event too.
C2_DefenseChainAppendsOne ==
    [][/\ (last'.op = "complete_event" /\ DefenseChained(last'.calls[1])) =>
            /\ Len(active_events') = Len(active_events) + 1
            /\ active_events'[Len(active_events')].chain_tag = "questline"
            /\ active_events'[Len(active_events')].eid
                    \notin IdsOf(active_events)
            /\ \A i \in 1..Len(active_events) :
                    active_events'[i] =
                        IF active_events[i].eid = last'.event_id
                        THEN [active_events[i] EXCEPT !.resolved = TRUE]
                        ELSE active_events[i]
            /\ ListedResolved(active_events', last'.event_id)
       /\ last'.op = "update" =>
            /\ \A i \in 1..Len(active_events') : ~active_events'[i].resolved
            /\ \A c \in Calls(last') :
                    DefenseChained(c) =>
                        /\ Len(c.follows) = 1
                        /\ c.follows[1].chain_tag = "questline"]_vars

\* C2 witness: complete_event has returned from the completion of a defense
\* event that chained, and the original is listed, resolved.
C2_Witness ==
    /\ last.op = "complete_event"
    /\ DefenseChained(last.calls[1])
    /\ Len(last.calls[1].follows) = 1
    /\ ListedResolved(active_events, last.event_id)
    /\ active_events[Len(active_events)].chain_tag = "questline"

\* C3: active_events never holds more than five unresolved events.
C3_AtMostFiveUnresolved ==
    Cardinality(UnresolvedOf(active_events)) <= 5

\* C3 witness: five unresolved events are listed, one of them the follow-up
\* of a chain.
C3_Witness ==
    /\ Cardinality(UnresolvedOf(active_events)) = 5
    /\ \E i \in UnresolvedOf(active_events) :
            active_events[i].title = VillageTitle


\* The events of a step that are new to active_events and are not the
\* template the step generated: the follow-ups that stay listed.
ListedFollowUps(before, after, l) ==
    {i \in 1..Len(after) :
        after[i].eid \notin IdsOf(before) /\ after[i].eid # l.generated}

\* C4: a follow-up is created only by a complete_event that has just
\* resolved an unresolved parent with a non-empty chain tag and a running
\* timer: every id given out in a step goes to the template of that step or
\* to the follow-up of such a completion, an event that timed out in the
\* step is the parent of none, and no parent stays unresolved.
C4_FollowUpOnlyFromResolvedTaggedParent ==
    [][/\ \A c \in Calls(last') :
            c.follows # <<>> =>
                /\ c.matched
                /\ ~c.parent.resolved
                /\ c.parent.chain_tag # ""
                /\ c.parent.timer > 0
                /\ c.parent.eid \notin last'.timed_out
                /\ ~ListedUnresolved(active_events', c.parent.eid)
                /\ (ListedUnresolved(active_events, c.parent.eid)
                    \/ c.parent.eid >= next_event_id)
       /\ \A i \in ListedFollowUps(active_events, active_events', last') :
            \E c \in Calls(last') :
                /\ c.follows # <<>>
                /\ c.follows[1].eid = active_events'[i].eid
       /\ next_event_id' - next_event_id =
            (IF last'.op = "update" /\ last'.generated # 0 THEN 1 ELSE 0)
            + Cardinality({k \in 1..Len(last'.calls) :
                              last'.calls[k].follows # <<>>})
       /\ \A id \in last'.timed_out :
            \A c \in Calls(last') : c.follows # <<>> => c.parent.eid # id
      ]_vars

\* C4 witness: an update in which one event timed out and another was
\* auto-resolved and chained, its follow-up staying listed.
C4_Witness ==
    /\ last.op = "update"
    /\ last.timed_out # {}
    /\ \E c \in Calls(last) :
        /\ c.follows # <<>>
        /\ c.follows[1].eid \in IdsOf(active_events)

\* C5: an update removes every unresolved event whose timer it brings to 0
\* or below; that event is not completed in the call (no reward, no world
\* impact, no history entry for it, no auto-resolve), an update that
\* completes nothing leaves player, world, entities, relations and history
\* as they were, and no step brings back an id that has left the list.
C5_TimeoutRemovesWithoutReward ==
    [][/\ last'.op = "update" =>
            /\ \A i \in 1..Len(active_events) :
                (~active_events[i].resolved
                 /\ active_events[i].timer - last'.dt <= 0) =>
                    /\ active_events[i].eid \in last'.timed_out
                    /\ active_events[i].eid \notin IdsOf(active_events')
            /\ \A id \in last'.timed_out :
                /\ id \notin IdsOf(active_events')
                /\ \A c \in Calls(last') : c.event_id # id
            /\ Len(completed_events') =
                    Len(completed_events) + Len(last'.calls)
            /\ \A k \in 1..Len(last'.calls) :
                    completed_events'[Len(completed_events) + k] =
                        last'.calls[k].parent.title
            /\ last'.calls = <<>> =>
                    UNCHANGED <<player, player_blocks, entities,
                                faction_relations, completed_events>>
       /\ \A i \in 1..Len(active_events') :
            \/ active_events'[i].eid \in IdsOf(active_events)
            \/ active_events'[i].eid >= next_event_id
      ]_vars

\* C5 witness: an update has timed out one event while it auto-resolved
\* another, which is the only one the history gained.
C5_Witness ==
    /\ last.op = "update"
    /\ last.timed_out # {}
    /\ Len(last.calls) = 1
    /\ last.calls[1].event_id \notin last.timed_out


\* C6 as claimed: a completion of an event tagged defense, questline or
\* isekai whose chain draw succeeds generates exactly one follow-up, and no
\* completion generates more than one.  (complete_event makes no draw for
\* an isekai event: its draw is taken as succeeding, see CompletionDraws.)
C6_EveryChainTagChains ==
    \A c \in Calls(last) :
        /\ Len(c.follows) <= 1
        /\ (c.matched /\ c.chain
            /\ c.parent.chain_tag \in {"defense", "questline", "isekai"}) =>
                Len(c.follows) = 1

\* C6 amended: a completion of an event tagged defense or questline whose
\* chain draw succeeds generates exactly one follow-up, a quest tagged
\* questline and an isekai event tagged isekai; a completion of an event
\* with any other tag (isekai, worldshift) generates none, as does one whose
\* draw fails; no completion generates more than one, and complete_event
\* leaves the follow-up as the last event of the list.
C6_DefenseAndQuestlineChainOnce ==
    /\ \A c \in Calls(last) :
        /\ Len(c.follows) <= 1
        /\ (c.matched /\ c.chain /\ c.parent.chain_tag = "defense") =>
                /\ Len(c.follows) = 1
                /\ c.follows[1].etype = "quest"
                /\ c.follows[1].chain_tag = "questline"
        /\ (c.matched /\ c.chain /\ c.parent.chain_tag = "questline") =>
                /\ Len(c.follows) = 1
                /\ c.follows[1].etype = "isekai"
                /\ c.follows[1].chain_tag = "isekai"
        /\ (c.parent.chain_tag \notin {"defense", "questline"}
            \/ ~c.chain \/ ~c.matched) => c.follows = <<>>
    /\ (last.op = "complete_event" /\ last.calls[1].follows # <<>>) =>
            active_events[Len(active_events)] = last.calls[1].follows[1]

\* C6 witness: one update auto-resolved a defense event, the questline
\* follow-up it chained and the isekai follow-up that one chained, which
\* chained nothing.
C6_Witness ==
    /\ last.op = "update"
    /\ Len(last.calls) = 3
    /\ last.calls[1].parent.chain_tag = "defense"
    /\ last.calls[2].parent.eid = last.calls[1].follows[1].eid
    /\ last.calls[3].parent.eid = last.calls[2].follows[1].eid
    /\ last.calls[3].parent.chain_tag = "isekai"
    /\ last.calls[3].follows = <<>>

\* C7 as claimed: every follow-up is strictly more difficult than the event
\* whose completion generated it.
C7_FollowUpStrictlyHarder ==
    \A c \in Calls(last) :
        c.follows # <<>> => c.follows[1].difficulty > c.parent.difficulty

\* C7 amended: a follow-up is never less difficult than its parent: the
\* follow-up of a questline event has the parent's difficulty plus one, the
\* follow-up of a defense event has the parent's difficulty unchanged.
C7_FollowUpDifficulty ==
    \A c \in Calls(last) :
        c.follows # <<>> =>
            /\ c.follows[1].difficulty >= c.parent.difficulty
            /\ c.parent.chain_tag = "questline" =>
                    c.follows[1].difficulty = c.parent.difficulty + 1
            /\ c.parent.chain_tag = "defense" =>
                    c.follows[1].difficulty = c.parent.difficulty

\* C7 witness: the last call chained a questline event of difficulty two
\* or more into a harder one.
C7_Witness ==
    \E c \in Calls(last) :
        /\ c.follows # <<>>
        /\ c.parent.chain_tag = "questline"
        /\ c.parent.difficulty >= 2
        /\ c.follows[1].difficulty = c.parent.difficulty + 1

\* C8: next_event_id never decreases and is above every listed id, listed
\* ids are pairwise different (so at most one unresolved event per id), and
\* an id that enters the list is above every id given out before the step.
C8_IdsMonotonicAndUnique ==
    /\ [](/\ \A i \in 1..Len(active_events) :
                active_events[i].eid < next_event_id
          /\ \A i, j \in 1..Len(active_events) :
                active_events[i].eid = active_events[j].eid => i = j)
    /\ [][/\ next_event_id' >= next_event_id
          /\ \A i \in 1..Len(active_events') :
                \/ active_events'[i].eid \in IdsOf(active_events)
                \/ /\ active_events'[i].eid >= next_event_id
                   /\ \A j \in 1..Len(active_events) :
                        active_events'[i].eid > active_events[j].eid
          /\ \A c \in Calls(last') :
                c.follows # <<>> =>
                    /\ c.follows[1].eid >= next_event_id
                    /\ c.follows[1].eid > c.parent.eid
                    /\ c.follows[1].eid # last'.generated]_vars

\* C8 witness: a template and the follow-up of an earlier event are listed
\* together after three ids were given out.
C8_Witness ==
    /\ next_event_id = 4
    /\ Len(active_events) >= 2
    /\ \E i \in 1..Len(active_events) : active_events[i].title = VillageTitle
    /\ \E i \in 1..Len(active_events) : active_events[i].etype = "world"

\* C10 as claimed: completed_events never holds more than 50 titles.
C10_HistoryInMemoryBounded ==
    Len(completed_events) <= 50

\* C10 amended: the completion history that to_dict persists holds at most
\* 50 titles, the last ones of completed_events; the list complete_event
\* appends to grows by one title with every completion.
C10_PersistedHistoryBounded ==
    saved # NoSave =>
        /\ Len(saved.completed_events) <= 50
        /\ (last.op = "to_dict" =>
                /\ Len(saved.completed_events) =
                        Min(50, Len(completed_events))
                /\ \A k \in 1..Len(saved.completed_events) :
                        saved.completed_events[k] =
                            completed_events[Len(completed_events)
                                - Len(saved.completed_events) + k])

\* C10 witness: to_dict was called with 51 titles in completed_events and
\* persisted 50.
C10_Witness ==
    /\ last.op = "to_dict"
    /\ Len(completed_events) = 51
    /\ Len(saved.completed_events) = 50


-----------------------------------------------------------------------------
(* Properties of the entity list over the frames of the main loop.         *)

C12_AllAliveAfterUpdate ==
    last.op = "entities.update"
        => \A i \in 1..Len(entities) : entities[i].hp > 0

\* An update that was entered with a summoned ally in the list, lost a
\* monster to an ally in its loop and spawned a monster.
C12_Witness ==
    /\ last.op = "entities.update"
    /\ last.spawned
    /\ Len(last.before) > Len(FightPopulation)
    /\ \E i \in 1..Len(last.before) :
          last.before[i].hp > 0 /\ last.looped[i].hp <= 0
    /\ entities[Len(entities)].etype = "goblin"
    /\ entities[Len(entities)].hp > 0

DiedHostile(ent) == ent.hp <= 0 /\ ent.faction \in {"monsters", "boss"}

\* C13: the loot signals of one EntityManager.update are, in the order of
\* the list, one for each entity of faction monsters or boss that the loop
\* left with hp <= 0, dropped where it died, with exp 14 for monsters and
\* 60 for boss; there is none for another entity.
C13_OneLootPerHostileDeath ==
    last.op = "entities.update" =>
        LET died == SelectSeq(last.looped, DiedHostile) IN
        /\ Len(last.loot) = Len(died)
        /\ \A k \in 1..Len(died) :
              /\ last.loot[k].x = died[k].x
              /\ last.loot[k].y = died[k].y
              /\ last.loot[k].exp =
                    IF died[k].faction = "monsters" THEN 14 ELSE 60

\* An update that swept a monster, the boss and an ally and signalled loot
\* for the first two only.
C13_Witness ==
    /\ last.op = "entities.update"
    /\ Len(last.loot) = 2
    /\ \E k \in 1..2 : last.loot[k].exp = 14
    /\ \E k \in 1..2 : last.loot[k].exp = 60
    /\ \E i \in 1..Len(last.looped) :
          last.looped[i].hp <= 0 /\ last.looped[i].faction = "allies"
    /\ \E i \in 1..Len(last.looped) :
          last.looped[i].hp > 0 /\ last.looped[i].faction = "monsters"


-----------------------------------------------------------------------------
(* Properties of the path planner.                                         *)

Adjacent4(a, b) == Abs(a[1] - b[1]) + Abs(a[2] - b[2]) = 1

SolidNow(tile) == is_solid_tile(WorldState, tile[1], tile[2]).ret

\* C14: a non-empty result of astar_path begins with start, ends with
\* goal, steps between 4-adjacent tiles only and has no solid tile after
\* its first; with start = goal it is the one-element path of start.
C14_PathIsValid ==
    last.op = "astar_path" =>
        /\ last.path # <<>> =>
            /\ last.path[1] = last.start
            /\ last.path[Len(last.path)] = last.goal
            /\ \A k \in 1..(Len(last.path) - 1) :
                    Adjacent4(last.path[k], last.path[k + 1])
            /\ \A k \in 2..Len(last.path) : ~SolidNow(last.path[k])
        /\ last.start = last.goal => last.path = <<last.start>>

\* A path was found that is longer than the straight line, which a wall
\* blocks: the detour.
C14_Witness ==
    /\ last.op = "astar_path"
    /\ last.start = <<9, 0>> /\ last.goal = <<11, 0>>
    /\ SolidNow(<<10, 0>>)
    /\ Len(last.path) = 5

\* C15 as stated: on a grid without solid tiles, a Manhattan distance d
\* below max_nodes is enough for a path of exactly d steps.
DistanceWithinBudget(start, goal, max_nodes) ==
    Manhattan(start, goal) < max_nodes

\* The rectangle spanned by start and goal has at most max_nodes tiles.
RectangleWithinBudget(start, goal, max_nodes) ==
    (Abs(start[1] - goal[1]) + 1) * (Abs(start[2] - goal[2]) + 1)
        <= max_nodes

\* No tile within max_nodes steps of start is solid, as far as the window
\* of generated tiles tells: the planner asks about no tile further away.
OpenGrid(start, max_nodes) ==
    \A dx \in (0 - max_nodes)..max_nodes :
        \A dy \in (Abs(dx) - max_nodes)..(max_nodes - Abs(dx)) :
            /\ Tabulated(start[1] + dx, start[2] + dy)
            /\ ~SolidNow(<<start[1] + dx, start[2] + dy>>)

C15_Original ==
    (/\ last.op = "astar_path"
     /\ OpenGrid(last.start, last.max_nodes)
     /\ DistanceWithinBudget(last.start, last.goal, last.max_nodes))
    => Len(last.path) = Manhattan(last.start, last.goal) + 1

\* C15: on a grid without solid tiles every path astar_path returns has
\* exactly d steps, d the Manhattan distance of start and goal, and it
\* returns one whenever the rectangle spanned by start and goal has at
\* most max_nodes tiles.
C15_OpenGridShortest ==
    (last.op = "astar_path" /\ OpenGrid(last.start, last.max_nodes)) =>
        /\ last.path # <<>> =>
              Len(last.path) = Manhattan(last.start, last.goal) + 1
        /\ RectangleWithinBudget(last.start, last.goal, last.max_nodes)
              => last.path # <<>>

\* On the open grid a diagonal goal was found within the rectangle's
\* budget.
C15_Witness ==
    /\ last.op = "astar_path"
    /\ OpenGrid(last.start, last.max_nodes)
    /\ last.start = <<9, 0>> /\ last.goal = <<10, 2>>
    /\ last.max_nodes = 6
    /\ Len(last.path) = 4

\* C16: astar_path pops at most max_nodes nodes, and it returns the empty
\* sequence when the goal was not popped by then, as when the goal is
\* solid or walled in.
C16_BudgetBoundsSearch ==
    last.op = "astar_path" =>
        /\ last.explored <= last.max_nodes
        /\ (/\ last.start # last.goal
            /\ \/ SolidNow(last.goal)
               \/ \A k \in 1..4 : SolidNow(NeighboursOf(last.goal)[k]))
           => last.path = <<>>
        /\ (last.path # <<>> /\ last.start # last.goal)
           => last.explored >= 1

\* The walled-in goal used up the whole budget and no path came back.
C16_Witness ==
    /\ last.op = "astar_path"
    /\ last.start = <<9, 0>> /\ last.goal = <<11, 0>>
    /\ \A k \in 1..4 : SolidNow(NeighboursOf(last.goal)[k])
    /\ last.max_nodes = MoreNodes
    /\ last.explored = last.max_nodes
    /\ last.path = <<>>

-----------------------------------------------------------------------------
(* Properties of the world.                                                *)

TileNow(tx, ty) == get_tile(WorldState, tx, ty).ret

\* C17: is_solid_tile is decided by the override where there is one, a
\* "wall" override being solid whatever the tile under it, and is
\* otherwise true exactly when the tile of the coordinate is water or
\* stone.
C17_SolidityDecided ==
    last.op = "is_solid_tile" =>
        IF <<last.tx, last.ty>> \in DOMAIN player_blocks
        THEN last.ret = (player_blocks[<<last.tx, last.ty>>] = "wall")
        ELSE last.ret = (TileNow(last.tx, last.ty) \in {"water", "stone"})

\* A wall on grass was reported solid.
C17_Witness ==
    /\ last.op = "is_solid_tile"
    /\ <<last.tx, last.ty>> \in DOMAIN player_blocks
    /\ TileNow(last.tx, last.ty) = "grass"
    /\ last.ret

\* C18: on a coordinate without an override, place_player_block followed
\* by remove_player_block gives back the override map as it was;
\* is_solid_tile is true in between and afterwards true exactly when the
\* tile under it is solid; remove_player_block on a coordinate without an
\* override changes nothing.
C18_PlaceThenRemoveRestores ==
    [][last'.op = "remove_player_block" =>
        /\ last'.undoes =>
              /\ player_blocks' = last.before
              /\ is_solid_tile(WorldState, last.tx, last.ty).ret
              /\ is_solid_tile(WorldState', last.tx, last.ty).ret
                    = (TileNow(last.tx, last.ty) \in SolidTiles)
        /\ <<last'.tx, last'.ty>> \notin DOMAIN player_blocks =>
              UNCHANGED <<player_blocks, seed, chunks, discovered_tiles,
                          sky, saved_world>>]_vars

\* A wall placed on the free grass tile (5, 5) was removed again.
C18_Witness ==
    /\ last.op = "remove_player_block"
    /\ last.undoes
    /\ <<last.tx, last.ty>> = <<5, 5>>
    /\ ~is_solid_tile(WorldState, 5, 5).ret

\* C19 as stated: no operation of World, load_dict among them, takes a
\* coordinate out of the discovered set.
C19_NeverShrinks == [][discovered_tiles \subseteq discovered_tiles']_vars

\* C19: every operation of World but load_dict leaves the discovered set
\* a superset of what it was; load_dict makes it the set the data holds.
C19_ShrinksOnlyOnLoad ==
    [][IF last'.op = "load_dict"
       THEN discovered_tiles' =
               {ParseCoord(key) : key \in saved_world.discovered}
       ELSE discovered_tiles \subseteq discovered_tiles']_vars

\* The tiles around the player are discovered and stay so while the
\* clock runs.
C19_Witness ==
    /\ last.op = "update"
    /\ RevealedAround(avatar.x, avatar.y, RevealRadius)
          \subseteq discovered_tiles
    /\ discovered_tiles # {}

\* C20: get_tile returns the tile generate_chunk computes for the
\* coordinate under the seed the world has now.
C20_TileOfCurrentSeed ==
    last.op = "get_tile" =>
        last.ret = GeneratedTile(seed, last.tx, last.ty)

-----------------------------------------------------------------------------
(* Properties of faction_relations.                                        *)

\* C21: every value of faction_relations is an integer of -100..100.
C21_RelationsInRange ==
    \A key \in DOMAIN faction_relations :
        faction_relations[key] \in (-100)..100

-----------------------------------------------------------------------------
(* Properties of the save file.                                            *)

\* The file load_game has just read without a fault is one save_game
\* wrote, from the game last.source.
LoadedOwnSave ==
    last.op = "load_game" /\ last.fault = "none" /\ last.source.kind = "game"

\* C22: after to_dict and load_dict the override map is the map that was
\* saved: the same integer coordinate pairs with the same block kinds.
C22_BlocksRoundTrip ==
    LoadedOwnSave =>
        /\ DOMAIN player_blocks = DOMAIN last.source.player_blocks
        /\ \A k \in DOMAIN player_blocks :
              player_blocks[k] = last.source.player_blocks[k]

\* A new game has loaded walls at negative and at three-digit coordinates.
C22_Witness ==
    /\ LoadedOwnSave
    /\ last.onto = "new_game"
    /\ DOMAIN player_blocks = PersistBlockTiles
    /\ \E k \in DOMAIN player_blocks : k[1] < 0
    /\ \E k \in DOMAIN player_blocks : k[2] < 0

\* C23: after to_dict and load_dict the discovered set is the set that
\* was saved, whatever its size.
C23_DiscoveredRoundTrip ==
    LoadedOwnSave => discovered_tiles = last.source.discovered_tiles

\* C24: after to_dict and load_dict, on the same engine or on another, the
\* four scalars are those of the saved engine, the active events are the
\* saved ones with their ten fields in the same order, and the history is
\* the last min(50, n) of the n saved titles in their order.
C24_EngineRoundTrip ==
    LoadedOwnSave =>
        LET src == last.source
            n == Len(src.completed_events)
            m == IF n < 50 THEN n ELSE 50
        IN  /\ next_event_id = src.next_event_id
            /\ game_minutes = src.game_minutes
            /\ next_event_in = src.next_event_in
            /\ next_flavor_in = src.next_flavor_in
            /\ Len(active_events) = Len(src.active_events)
            /\ \A k \in 1..Len(active_events) :
                  /\ DOMAIN active_events[k] =
                        {"eid", "etype", "title", "description", "biome",
                         "difficulty", "reward", "timer", "chain_tag",
                         "resolved"}
                  /\ \A f \in DOMAIN active_events[k] :
                        active_events[k][f] = src.active_events[k][f]
            /\ Len(completed_events) = m
            /\ \A k \in 1..m :
                  completed_events[k] = src.completed_events[n - m + k]

\* A new engine has loaded a resolved event followed by an unresolved one
\* and the last 50 of 51 titles.
C24_Witness ==
    /\ LoadedOwnSave
    /\ last.onto = "new_game"
    /\ Len(active_events) = 2
    /\ active_events[1].resolved
    /\ ~active_events[2].resolved
    /\ game_minutes = 7
    /\ Len(last.source.completed_events) = 51
    /\ Len(completed_events) = 50

\* C25: load_dict of World and of EventSystem end without a fault,
\* whatever the file holds.
C25_LoadNeverFaults == last.op = "load_game" => last.fault = "none"


(***************************************************************************)
(* Properties of the main loop.                                            *)
(***************************************************************************)

\* The three updates of a frame that is not paused, in the order of the
\* calls, each with the dt of the frame.
FrameCalls(dt) ==
    <<<<"world.update", dt>>, <<"entities.update", dt>>,
      <<"events.update", dt>>>>

\* How many of the three updates have been called at a place of the frame.
CalledAt(pc) ==
    IF pc \in {"events", "systems"} THEN 0
    ELSE IF pc = "entities" THEN 1
    ELSE IF pc \in {"projectiles", "events_update"} THEN 2
    ELSE 3

AfterEntitiesUpdate == last.op = "entities.update"

\* dt * scale as update has it, in units of SECOND / 2000.
Elapsed == (frame.dt * (IF avatar.time_slow > 0 THEN 45 ELSE 100)) \div 100

\* ent.ai_timer after the decrement of the turn of entity i.
TimerLeft(i) == last.before[i].ai_timer - Elapsed

\* The square of the distance of entity i to the player when its turn
\* began.
DistanceThen(i) ==
    Dist2(avatar.x - last.before[i].x, avatar.y - last.before[i].y)

\* The state the faction and the distance ask for.
StateFor(faction, dist2) ==
    IF faction \in {"monsters", "boss"} /\ SqLess(dist2, Pixels2(300))
    THEN "chase"
    ELSE IF faction = "allies" THEN "assist"
    ELSE IF faction = "villagers" /\ SqLess(dist2, Pixels2(130))
    THEN "social"
    ELSE "wander"

Headings == {d.wander : d \in EntityDraws}

\* C27: an entity whose timer has run out in its turn leaves the update in
\* the state its faction and its distance to the player ask for, and a
\* wanderer has a heading that was drawn in that turn (which the collision
\* correction may have reversed).
C27_StateFromFactionAndDistance ==
    AfterEntitiesUpdate =>
       \A k \in 1..Len(last.steps) :
          LET i == last.steps[k].i IN
          TimerLeft(i) <= 0 =>
             /\ last.looped[i].state
                   = StateFor(last.before[i].faction, DistanceThen(i))
             /\ last.looped[i].state = "wander" =>
                   /\ last.steps[k].dir \in Headings
                   /\ last.looped[i].dir
                         \in {last.steps[k].dir,
                              <<0 - last.steps[k].dir[1],
                                0 - last.steps[k].dir[2]>>}

Redrew(i) ==
    /\ \E k \in 1..Len(last.steps) : last.steps[k].i = i
    /\ TimerLeft(i) <= 0

\* One update in which the four states were all drawn: for an ally, which is
\* in assist since its summoning, and for entities that were in another
\* state or had another heading.
C27_Witness ==
    /\ AfterEntitiesUpdate
    /\ \A st \in {"chase", "assist", "social", "wander"} :
          \E i \in 1..Len(last.before) :
             /\ Redrew(i)
             /\ last.looped[i].state = st
             /\ \/ last.before[i].state # st
                \/ last.before[i].faction = "allies"
                \/ last.before[i].dir \notin
                      {last.looped[i].dir,
                       <<0 - last.looped[i].dir[1],
                         0 - last.looped[i].dir[2]>>}


\* C28: an entity whose timer is above zero after the decrement of its turn
\* keeps its state, and its timer is what the decrement left; an entity
\* whose timer has run out has a timer between 0.6 s and 1.6 s; an entity
\* that had no turn keeps its state and its timer.
C28_StateChangesOnlyOnTimeout ==
    AfterEntitiesUpdate =>
       \A i \in 1..Len(last.before) :
          IF \E k \in 1..Len(last.steps) : last.steps[k].i = i
          THEN IF TimerLeft(i) <= 0
               THEN last.looped[i].ai_timer
                       \in ((6 * SECOND) \div 10)..((16 * SECOND) \div 10)
               ELSE /\ last.looped[i].state = last.before[i].state
                    /\ last.looped[i].ai_timer = TimerLeft(i)
          ELSE /\ last.looped[i].state = last.before[i].state
               /\ last.looped[i].ai_timer = last.before[i].ai_timer

\* One update in which a monster less than 300 pixels from the player
\* wandered on because its timer had not run out, while another entity
\* changed its state.
C28_Witness ==
    /\ AfterEntitiesUpdate
    /\ \E i \in 1..Len(last.before) :
          /\ \E k \in 1..Len(last.steps) : last.steps[k].i = i
          /\ TimerLeft(i) > 0
          /\ last.looped[i].state = "wander"
          /\ StateFor(last.before[i].faction, DistanceThen(i)) = "chase"
    /\ \E j \in 1..Len(last.before) :
          /\ Redrew(j)
          /\ last.looped[j].state # last.before[j].state


\* Whether the tile under a position is solid.
SolidAt(pos) == is_solid_tile(WorldState, TileOf(pos[1]), TileOf(pos[2])).ret

\* C29: an entity that took its turn in the state social is, after the
\* update, where it was when its turn began.
C29_SocialStaysPut ==
    AfterEntitiesUpdate =>
       \A k \in 1..Len(last.steps) :
          LET i == last.steps[k].i IN
          last.looped[i].state = "social" =>
             <<last.looped[i].x, last.looped[i].y>> = last.steps[k].pre

\* C30: when the tile under the entity after the move of its turn is
\* solid, the entity ends the turn where it began it, with its heading
\* reversed; otherwise it ends the turn where the move took it, with the
\* heading of the move.
C30_CorrectionRestoresPosition ==
    AfterEntitiesUpdate =>
       \A k \in 1..Len(last.steps) :
          LET i == last.steps[k].i
              step == last.steps[k]
          IN  IF SolidAt(step.post)
              THEN /\ <<last.looped[i].x, last.looped[i].y>> = step.pre
                   /\ last.looped[i].dir
                         = <<0 - step.dir[1], 0 - step.dir[2]>>
              ELSE /\ <<last.looped[i].x, last.looped[i].y>> = step.post
                   /\ last.looped[i].dir = step.dir


\* The hp a living hostile entity in state chase takes from the player
\* when it is less than 28 pixels away, and 0 for the other entities.
Bite(i) ==
    IF /\ last.looped[i].state = "chase"
       /\ last.before[i].faction \in {"monsters", "boss"}
       /\ SqLess(DistanceThen(i), Pixels2(28))
    THEN IF last.before[i].faction = "boss" THEN 6 ELSE 3
    ELSE 0

RECURSIVE Bites(_)
Bites(k) ==
    IF k = 0 THEN 0 ELSE Bites(k - 1) + Bite(last.steps[k].i)

\* C31: an update takes from the player's hp 3 for every living monster
\* and 6 for every living boss that is in state chase less than 28 pixels
\* away, and nothing for any other entity; the hp does not go below 0.
C31_ContactDamage ==
    AfterEntitiesUpdate =>
       player.hp = Max(0, last.hp - Bites(Len(last.steps)))


(***************************************************************************)
(* Properties of the assist branch.  A step of an entity in state assist   *)
(* carries aim: the target that was chosen (0 for none) and aim.seen, the  *)
(* list it was chosen from.                                                *)
(***************************************************************************)

\* The entities of one faction that are alive and strictly within max_dist
\* pixels of entity i, in the list seen.
Eligible(seen, i, faction, max_dist) ==
    {j \in 1..Len(seen) :
        /\ seen[j].hp > 0
        /\ seen[j].faction = faction
        /\ SqLess(Dist2(seen[j].x - seen[i].x, seen[j].y - seen[i].y),
                  Pixels2(max_dist))}

\* No entity of the set is nearer to entity i than entity t is.
NearestOf(seen, i, t, set) ==
    /\ t \in set
    /\ \A j \in set :
          ~SqLess(Dist2(seen[j].x - seen[i].x, seen[j].y - seen[i].y),
                  Dist2(seen[t].x - seen[i].x, seen[t].y - seen[i].y))

AssistSteps ==
    {k \in 1..Len(last.steps) :
        last.looped[last.steps[k].i].state = "assist"}

\* C32: the target of an entity in state assist is a nearest living monster
\* strictly within 260 pixels when there is one; otherwise a nearest living
\* boss strictly within 300 pixels when there is one; otherwise there is no
\* target and the entity makes its step towards the player.  The entity
\* heads for its target.
C32_AssistTarget ==
    AfterEntitiesUpdate =>
       \A k \in AssistSteps :
          LET i == last.steps[k].i
              seen == last.steps[k].aim.seen
              t == last.steps[k].aim.t
              monsters == Eligible(seen, i, "monsters", 260)
              bosses == Eligible(seen, i, "boss", 300)
              towards == IF t # 0
                         THEN <<Sgn(seen[t].x - seen[i].x),
                                Sgn(seen[t].y - seen[i].y)>>
                         ELSE <<Sgn(avatar.x - seen[i].x),
                                Sgn(avatar.y - seen[i].y)>>
          IN  /\ IF monsters # {} THEN NearestOf(seen, i, t, monsters)
                 ELSE IF bosses # {} THEN NearestOf(seen, i, t, bosses)
                 ELSE t = 0
              /\ last.steps[k].dir = towards
              /\ last.steps[k].post # last.steps[k].pre

\* One update in which a monster is the target of an entity while a boss,
\* a dead monster, a villager and an ally are nearer to it, and a boss is
\* the target of another entity, which sees no living monster.
C32_Witness ==
    /\ AfterEntitiesUpdate
    /\ \E k \in AssistSteps :
          /\ last.steps[k].aim.t # 0
          /\ last.steps[k].aim.seen[last.steps[k].aim.t].faction = "boss"
    /\ \E k \in AssistSteps :
          LET i == last.steps[k].i
              seen == last.steps[k].aim.seen
              t == last.steps[k].aim.t
          IN  /\ t # 0
              /\ seen[t].faction = "monsters"
              /\ \A f \in {"boss", "villagers", "allies"} :
                    \E j \in 1..Len(seen) :
                       /\ j # i
                       /\ seen[j].faction = f
                       /\ SqLess(Dist2(seen[j].x - seen[i].x,
                                       seen[j].y - seen[i].y),
                                 Dist2(seen[t].x - seen[i].x,
                                       seen[t].y - seen[i].y))
              /\ \E j \in 1..Len(seen) :
                    /\ seen[j].hp <= 0
                    /\ SqLess(Dist2(seen[j].x - seen[i].x,
                                    seen[j].y - seen[i].y),
                              Dist2(seen[t].x - seen[i].x,
                                    seen[t].y - seen[i].y))


(***************************************************************************)
(* Properties of the proximity spawner, which update calls on the list     *)
(* that its sweep has left.                                                *)
(***************************************************************************)

\* The list the sweep leaves: the living entities of last.looped.
SweptList == SelectSeq(last.looped, Alive)

\* C33: spawn_near_player leaves the list as it is or appends one entity of
\* faction monsters with hp > 0 to it, and leaves a list of more than 55
\* entities as it is; a list it has appended to holds at most 56 entities.
C33_SpawnerBounded ==
    AfterEntitiesUpdate =>
       \/ entities = SweptList
       \/ /\ Len(SweptList) <= 55
          /\ Len(entities) = Len(SweptList) + 1
          /\ Len(entities) <= 56
          /\ SubSeq(entities, 1, Len(SweptList)) = SweptList
          /\ entities[Len(entities)].faction = "monsters"
          /\ entities[Len(entities)].hp > 0

\* The spawner has made a list of 55 entities, which the sweep had made of
\* one of 56, a list of 56.
C33_Witness ==
    /\ AfterEntitiesUpdate
    /\ Len(last.looped) = 56
    /\ Len(SweptList) = 55
    /\ Len(entities) = 56


(***************************************************************************)
(* Properties of the countdown of EventSystem.update.                      *)
(***************************************************************************)

\* The log entries of a call that announce a new template event.
Announced(ret) ==
    {k \in 1..Len(ret) : ret[k][1] = "event" /\ ret[k][2] = "new"}

Completed(events, id) ==
    events[CHOOSE i \in 1..Len(events) :
              events[i].eid = id /\ ~events[i].resolved]

Without(blocks, key) == [k \in DOMAIN blocks \ {key} |-> blocks[k]]

\* C35: a call of complete_event that resolves a raid either removes one of
\* the player blocks and leaves the entity list alone, or leaves the blocks
\* alone and appends min(5, 1 + difficulty // 2) entities of faction
\* monsters with hp > 0; a call that resolves an event that is no raid, no
\* ruins world event and no blessing leaves the blocks, the entity list and
\* the faction relations alone.
C35_RaidImpact ==
    [][(last'.op = "complete_event"
           /\ ListedUnresolved(active_events, last'.event_id)) =>
          LET event == Completed(active_events, last'.event_id)
              n == Len(entities)
          IN  IF event.etype = "raid"
              THEN \/ /\ \E key \in DOMAIN player_blocks :
                            player_blocks' = Without(player_blocks, key)
                      /\ entities' = entities
                   \/ /\ player_blocks' = player_blocks
                      /\ Len(entities')
                            = n + Min(5, 1 + event.difficulty \div 2)
                      /\ SubSeq(entities', 1, n) = entities
                      /\ \A k \in (n + 1)..Len(entities') :
                            /\ entities'[k].faction = "monsters"
                            /\ entities'[k].hp > 0
              ELSE IF \/ event.etype = "world" /\ TitleHasRuins(event.title)
                      \/ event.etype = "isekai"
                            /\ TitleHasBlessing(event.title)
              THEN TRUE
              ELSE UNCHANGED <<player_blocks, entities, faction_relations>>
    ]_vars

\* A raid has been completed that removed one of the 25 walls of the ruins,
\* after a raid that brought monsters.
C35_Witness ==
    /\ last.op = "complete_event"
    /\ Len(last.calls) = 1
    /\ last.calls[1].matched
    /\ last.calls[1].parent.etype = "raid"
    /\ Cardinality(DOMAIN player_blocks) = 24
    /\ Len(entities) > Len(InitialPopulation)


-----------------------------------------------------------------------------
(* The sweep at the end of update.                                         *)

Listed(events, P(_)) == \A i \in 1..Len(events) : P(events[i])
Pending(event) == ~event.resolved /\ event.timer > 0

\* C36: when update returns, every event of active_events is unresolved and
\* has timer > 0, the follow-ups appended by a completion inside the loop
\* included; an event an earlier complete_event left in the list as resolved
\* is not in the list after the update.
C36_UpdateLeavesOnlyPending ==
    [][last'.op = "update" =>
          /\ Listed(active_events', Pending)
          /\ \A id \in IdsOf(active_events) :
                ListedResolved(active_events, id)
                    => id \notin IdsOf(active_events')]_vars

\* An update in whose loop a completion appended a follow-up that the same
\* loop then visited and kept, its timer reduced by dt.
C36_Witness ==
    /\ last.op = "update"
    /\ \E c \in Calls(last) :
          /\ c.follows # <<>>
          /\ \E i \in 1..Len(active_events) :
                /\ active_events[i].eid = c.follows[1].eid
                /\ active_events[i].timer = c.follows[1].timer - last.dt
                /\ Pending(active_events[i])


-----------------------------------------------------------------------------
(* The life of an event.                                                   *)

InList(id) == id \in IdsOf(active_events)
TimerOf(events, id) ==
    events[CHOOSE i \in 1..Len(events) : events[i].eid = id].timer

\* One generation of a chain: defense to questline, or questline to isekai.
Generation(c) ==
    \/ c.parent.chain_tag = "defense" /\ c.follows[1].chain_tag = "questline"
    \/ c.parent.chain_tag = "questline" /\ c.follows[1].chain_tag = "isekai"

\* C37: while update keeps being called with dt > 0, every event that is in
\* active_events is out of it at some later moment.  No step raises the
\* timer of a listed event, an update lowers by dt > 0 the timer of every
\* unresolved event it keeps, and every follow-up is the questline follow-up
\* of a defense event or the isekai follow-up of a questline event, so that
\* a chain has at most two generations and the loop of one update completes
\* at most three events for each event it started with.
C37_EveryEventLeaves ==
    /\ \A id \in 1..MaxLeaveEventId : InList(id) ~> ~InList(id)
    /\ [][/\ \A id \in IdsOf(active_events) \cap IdsOf(active_events') :
                TimerOf(active_events', id) <= TimerOf(active_events, id)
          /\ last'.op = "update" =>
                /\ last'.dt > 0
                /\ \A id \in IdsOf(active_events) \cap IdsOf(active_events') :
                      ListedUnresolved(active_events, id) =>
                          TimerOf(active_events', id)
                              = TimerOf(active_events, id) - last'.dt
                /\ Len(last'.calls)
                      <= 3 * (Cardinality(UnresolvedOf(active_events)) + 1)
          /\ \A c \in Calls(last') : c.follows # <<>> => Generation(c)]_vars

\* The rival of the second generation has been listed and has left, timed
\* out, after its parent and its grandparent were completed; nothing is
\* listed, and update can still be called.
C37_Witness ==
    /\ active_events = <<>>
    /\ next_event_id = 4
    /\ Len(completed_events) = 2
    /\ last.op = "update"
    /\ last.timed_out = {3}
    /\ game_minutes + 6 <= MaxLeaveMinutes


-----------------------------------------------------------------------------
(* The shortest route.                                                     *)

\* The tiles within four steps of the walls, which no shortest route
\* between two of the modelled tiles leaves.
RouteTiles == {<<x, y>> : x \in 5..16, y \in (-5)..5}

Adjacent(a, b) == Manhattan(a, b) = 1

\* Breadth-first search from front, d steps from the start, over the tiles
\* that are not solid: the number of steps of a shortest 4-connected route
\* to goal, or -1 when there is none.
RECURSIVE RouteSteps(_, _, _, _, _)
RouteSteps(front, seen, goal, free, d) ==
    IF goal \in front THEN d
    ELSE IF front = {} THEN -1
    ELSE LET next == {n \in free \ seen : \E m \in front : Adjacent(m, n)}
         IN  RouteSteps(next, seen \cup next, goal, free, d + 1)

ShortestRoute(start, goal) ==
    RouteSteps({start}, {start}, goal,
               {t \in RouteTiles : ~SolidNow(t)}, 0)

\* C38: a path astar_path returns has as many steps as a shortest
\* 4-connected route from start to goal through tiles that are not solid.
C38_PathIsShortest ==
    (last.op = "astar_path" /\ last.path # <<>>) =>
        Len(last.path) - 1 = ShortestRoute(last.start, last.goal)

\* Walls stand at (10, 0), (11, 1) and (11, -1), and the planner went from
\* (9, 0) around them to (11, 0) in the eight steps of the shortest route,
\* six more than the distance.
C38_Witness ==
    /\ last.op = "astar_path"
    /\ last.start = <<9, 0>> /\ last.goal = <<11, 0>>
    /\ SolidNow(<<10, 0>>) /\ SolidNow(<<11, 1>>) /\ SolidNow(<<11, -1>>)
    /\ ~SolidNow(<<12, 0>>)
    /\ Len(last.path) = 9
    /\ ShortestRoute(last.start, last.goal) = 8


-----------------------------------------------------------------------------
(* The states of a faction.                                                *)

StatesOf(faction) ==
    CASE faction = "allies" -> {"assist"}
      [] faction \in {"monsters", "boss"} -> {"wander", "chase"}
      [] faction = "villagers" -> {"wander", "social"}

\* C39: in every state an entity of faction allies, which summon_ally
\* created, is in the state assist, an entity of faction monsters or boss is
\* in wander or chase, and an entity of faction villagers is in wander or
\* social.
C39_StateFitsFaction ==
    \A i \in 1..Len(entities) :
        /\ entities[i].faction \in {"allies", "monsters", "boss", "villagers"}
        /\ entities[i].state \in StatesOf(entities[i].faction)

\* An ally was summoned with the R key in this frame and has taken its first
\* turn, its timer drawn anew, and after the update the list holds entities
\* in each of the four states.
C39_Witness ==
    /\ AfterEntitiesUpdate
    /\ Len(last.looped) > Len(FightPopulation)
    /\ \E i \in 1..Len(last.looped) :
          /\ i > Len(FightPopulation)
          /\ last.looped[i].faction = "allies"
          /\ Redrew(i)
    /\ \A st \in {"chase", "assist", "social", "wander"} :
          \E i \in 1..Len(entities) : entities[i].state = st


-----------------------------------------------------------------------------
(* Drag and drop.                                                          *)

DragItems == {"cheat_fruit", "gold"}

\* The pieces of item_id in the slots from k on.
RECURSIVE CountIn(_, _, _)
CountIn(slots, item_id, k) ==
    IF k > Len(slots) THEN 0
    ELSE (IF slots[k].id = item_id THEN slots[k].count ELSE 0)
         + CountIn(slots, item_id, k + 1)

\* The pieces of item_id in the inventory and in drag_item.
Carried(slots, cr, item_id) ==
    CountIn(slots, item_id, HotbarSize + 1)
    + (IF cr.drag_item # None /\ cr.drag_item.id = item_id
       THEN cr.drag_item.count ELSE 0)

\* C40: a call of handle_event with a press or a release of a mouse button
\* leaves the number of pieces of each item in the inventory and in
\* drag_item together as it was.
C40_DragDropConserves ==
    [][last'.op = "handle_event" =>
          \A item_id \in DragItems :
              Carried(player'.slots, crafting', item_id)
                  = Carried(player.slots, crafting, item_id)]_vars


=============================================================================
